---------------------------- MODULE Spec2Model ----------------------------
(***************************************************************************)
(* Local camera search index of verkcli (internal/cli/cameras_index.go).   *)
(*                                                                         *)
(* Strings are sequences of characters.  An ASCII character is the         *)
(* one-character string; a non-ASCII character is named by its code point  *)
(* ("U+00E9").                                                             *)
(***************************************************************************)
EXTENDS Integers, Sequences, FiniteSets, TLC

VARIABLES
    fileExists, \* the index file exists on disk (os.Stat succeeds)
    db,         \* committed rows of the four tables
    clock,      \* last value time.Now().UTC().Unix() returned
    last,       \* the last writer call (rebuild / label patch) and its return
    res,        \* the last reader call (search) and its return
    query,      \* query pipeline: the raw query string
    tokens,     \* query pipeline: tokenizeQuery(query)
    built,      \* query pipeline: buildFTSQuery(query)
    qpc,        \* query pipeline: position
    path,       \* index build command: the resolution of the index path
    fetch,      \* index build command: the loop of fetchAllCameras
    cfgLabels   \* config profile: Labels.Cameras, the label of each camera_id

vars == <<fileExists, db, clock, last, res, query, tokens, built, qpc, path, fetch, cfgLabels>>

storeVars == <<fileExists, db, clock, last, res>>
queryVars == <<query, tokens, built, qpc>>
cmdVars   == <<path, fetch, cfgLabels>>

-----------------------------------------------------------------------------
(* Characters *)

AsciiLower == <<"a","b","c","d","e","f","g","h","i","j","k","l","m",
                "n","o","p","q","r","s","t","u","v","w","x","y","z">>
AsciiUpper == <<"A","B","C","D","E","F","G","H","I","J","K","L","M",
                "N","O","P","Q","R","S","T","U","V","W","X","Y","Z">>
AsciiDigit == <<"0","1","2","3","4","5","6","7","8","9">>

Range(s) == {s[i] : i \in DOMAIN s}

IsAsciiLower(c) == c \in Range(AsciiLower)
IsAsciiUpper(c) == c \in Range(AsciiUpper)
IsAsciiDigit(c) == c \in Range(AsciiDigit)

IndexOf(s, c) == CHOOSE i \in DOMAIN s : s[i] = c

\* unicode.ToLower on one rune: ASCII upper case, U+00C9 (E acute) and the
\* Kelvin sign U+212A have a lower-case mapping; every other rune of the
\* model maps to itself.
ToLowerRune(c) ==
    IF IsAsciiUpper(c) THEN AsciiLower[IndexOf(AsciiUpper, c)]
    ELSE IF c = "U+00C9" THEN "U+00E9"
    ELSE IF c = "U+212A" THEN "k"
    ELSE c

\* strings.ToLower
ToLower(s) == [i \in DOMAIN s |-> ToLowerRune(s[i])]

\* unicode.IsSpace
IsSpace(c) == c \in {" ", "\t", "\n", "\r", "U+00A0"}

RECURSIVE FieldsFrom(_, _, _, _)
FieldsFrom(s, i, cur, acc) ==
    IF i > Len(s)
    THEN IF cur = <<>> THEN acc ELSE Append(acc, cur)
    ELSE IF IsSpace(s[i])
         THEN FieldsFrom(s, i + 1, <<>>, IF cur = <<>> THEN acc ELSE Append(acc, cur))
         ELSE FieldsFrom(s, i + 1, Append(cur, s[i]), acc)

\* strings.Fields: the maximal runs of non-space characters
Fields(s) == FieldsFrom(s, 1, <<>>, <<>>)

RECURSIVE TrimLeft(_)
TrimLeft(s) == IF s # <<>> /\ IsSpace(Head(s)) THEN TrimLeft(Tail(s)) ELSE s

RECURSIVE TrimRight(_)
TrimRight(s) ==
    IF s # <<>> /\ IsSpace(s[Len(s)]) THEN TrimRight(SubSeq(s, 1, Len(s) - 1)) ELSE s

\* strings.TrimSpace
TrimSpace(s) == TrimRight(TrimLeft(s))

RECURSIVE Join(_, _)
\* strings.Join
Join(ss, sep) ==
    IF ss = <<>> THEN <<>>
    ELSE IF Len(ss) = 1 THEN ss[1]
    ELSE ss[1] \o sep \o Join(Tail(ss), sep)

-----------------------------------------------------------------------------
(* Query side: tokenizeQuery, buildFTSQuery *)

\* a query without lower-casing (what tokenizeQuery would be without line 638)
tokenizeQueryNoLower(q) ==
    Fields([i \in DOMAIN q |-> IF IsAsciiLower(q[i]) \/ IsAsciiDigit(q[i]) THEN q[i] ELSE " "])

\* the switch of tokenizeQuery's loop on one rune of the lower-cased query
TokenizeRune(c) == IF IsAsciiLower(c) \/ IsAsciiDigit(c) THEN c ELSE " "

tokenizeQuery(q) ==
    LET lq == ToLower(q)
        b  == [i \in DOMAIN lq |-> TokenizeRune(lq[i])]
    IN  Fields(b)

camerasSearchStopwords ==
    { <<"a">>, <<"a","n">>, <<"a","n","d">>, <<"a","r","e">>, <<"a","t">>,
      <<"b","y">>, <<"f","o","r">>, <<"f","r","o","m">>,
      <<"i","n">>, <<"i","n","t","o">>, <<"i","s">>, <<"n","e","a","r">>,
      <<"o","f">>, <<"o","n">>, <<"o","r">>, <<"t","h","e">>, <<"t","o">>,
      <<"w","i","t","h">>,
      <<"c","a","m","e","r","a">>, <<"c","a","m","e","r","a","s">> }

\* The filter loop of buildFTSQuery.  keep := toks[:0] shares the backing
\* array of toks, so appending to keep overwrites arr in place; n is len(keep).
RECURSIVE FilterInPlace(_, _, _)
FilterInPlace(arr, i, n) ==
    IF i > Len(arr) THEN [arr |-> arr, n |-> n]
    ELSE IF arr[i] \in camerasSearchStopwords
         THEN FilterInPlace(arr, i + 1, n)
         ELSE FilterInPlace([arr EXCEPT ![n + 1] = arr[i]], i + 1, n + 1)

\* the filter loop without the fallback of lines 615-618
KeepTokensNoFallback(toks) ==
    LET f == FilterInPlace(toks, 1, 0) IN SubSeq(f.arr, 1, f.n)

\* keep after the filter loop and the fallback to toks
KeepTokens(toks) ==
    LET f == FilterInPlace(toks, 1, 0)
    IN  IF f.n = 0 THEN f.arr ELSE SubSeq(f.arr, 1, f.n)

RECURSIVE PrefixTerms(_)
\* the second loop: one prefix term t+"*" per non-empty token
PrefixTerms(keep) ==
    IF keep = <<>> THEN <<>>
    ELSE IF Head(keep) = <<>> THEN PrefixTerms(Tail(keep))
    ELSE <<Head(keep) \o <<"*">>>> \o PrefixTerms(Tail(keep))

\* terms joined so that any one of them is enough
OrSep == <<" ", "O", "R", " ">>

\* the separator of strings.Join(terms, " AND ")
AndSep == <<" ", "A", "N", "D", " ">>

\* buildFTSQuery that hands an empty expression on instead of failing
buildFTSQueryNoError(q) ==
    [err |-> FALSE, expr |-> Join(PrefixTerms(KeepTokens(tokenizeQuery(q))), AndSep)]

\* buildFTSQuery: err is TRUE for errors.New("query has no searchable tokens")
buildFTSQuery(q) ==
    LET toks  == tokenizeQuery(q)
        keep  == KeepTokens(toks)
        terms == PrefixTerms(keep)
    IN  IF Len(keep) = 0 THEN [err |-> TRUE, expr |-> <<>>]
        ELSE IF Len(terms) = 0 THEN [err |-> TRUE, expr |-> <<>>]
        ELSE [err |-> FALSE, expr |-> Join(terms, AndSep)]

-----------------------------------------------------------------------------
(* The full-text engine: the fts5 table of initCamerasIndexSchema with      *)
(* tokenize = 'unicode61', and the MATCH expression searchCamerasIndex      *)
(* hands to it.                                                             *)

\* unicode61 folds case and removes diacritics; a token is a maximal run of
\* letters and digits.
FtsFold(c) ==
    IF IsAsciiUpper(c) THEN AsciiLower[IndexOf(AsciiUpper, c)]
    ELSE IF c \in {"U+00C9", "U+00E9"} THEN "e"
    ELSE IF c = "U+212A" THEN "k"
    ELSE c

FtsIsTokenChar(c) ==
    IsAsciiLower(c) \/ IsAsciiUpper(c) \/ IsAsciiDigit(c) \/ c \in {"U+00C9", "U+00E9", "U+212A"}

\* the words the index holds for one column value
FtsTokens(text) ==
    Fields([i \in DOMAIN text |-> IF FtsIsTokenChar(text[i]) THEN FtsFold(text[i]) ELSE " "])

\* a bareword of the fts5 query syntax
FtsIsBareword(w) ==
    /\ w # <<>>
    /\ \A i \in DOMAIN w : FtsIsTokenChar(w[i]) \/ w[i] = "_"

FtsOperators == { <<"A","N","D">>, <<"O","R">>, <<"N","O","T">> }

\* One item of the expression: a bareword with an optional trailing "*".
FtsTerm(item) ==
    IF item # <<>> /\ item[Len(item)] = "*"
    THEN [word |-> SubSeq(item, 1, Len(item) - 1), prefix |-> TRUE]
    ELSE [word |-> item, prefix |-> FALSE]

RECURSIVE FtsGroups(_, _, _)
\* the terms of the items from i on, one group per operand of OR
FtsGroups(items, i, cur) ==
    IF i > Len(items) THEN <<cur>>
    ELSE IF items[i] = <<"O","R">> THEN <<cur>> \o FtsGroups(items, i + 1, <<>>)
    ELSE IF items[i] = <<"A","N","D">> THEN FtsGroups(items, i + 1, cur)
    ELSE FtsGroups(items, i + 1, Append(cur, FtsTerm(items[i])))

\* The parse of a MATCH expression of barewords joined by AND and OR (AND
\* binds tighter): ok is FALSE for what the model takes as an fts5 syntax
\* error; groups are the operands of OR, each the terms that must all match.
FtsParse(expr) ==
    LET items == Fields(expr)
        isOp(i) == items[i] \in FtsOperators
        wellFormed ==
            /\ items # <<>>
            /\ ~isOp(1) /\ ~isOp(Len(items))
            /\ \A i \in DOMAIN items : isOp(i) => items[i] # <<"N","O","T">> /\ ~isOp(i + 1)
            /\ \A i \in DOMAIN items : ~isOp(i) => FtsIsBareword(FtsTerm(items[i]).word)
    IN  IF wellFormed
        THEN [ok |-> TRUE, groups |-> FtsGroups(items, 1, <<>>)]
        ELSE [ok |-> FALSE, groups |-> <<>>]

IsPrefix(p, w) == Len(p) <= Len(w) /\ SubSeq(w, 1, Len(p)) = p

\* a term matches a word of the index
FtsTermMatchesWord(term, w) ==
    \* the term's word is folded by the tokenizer like the indexed text
    LET tw == [i \in DOMAIN term.word |-> FtsFold(term.word[i])]
    IN  IF term.prefix THEN IsPrefix(tw, w) ELSE tw = w

-----------------------------------------------------------------------------
(* Values of the model *)

S(str) == [t |-> "string", s |-> str]   \* a JSON string
N(num) == [t |-> "number", n |-> num]   \* a JSON number (float64), integral
JNull  == [t |-> "null"]                \* JSON null: no case of pickString's switch

RECURSIVE FormatInt(_)
\* strconv.FormatInt(n, 10) / strconv.Itoa for n >= 0
FormatInt(n) ==
    IF n < 10 THEN <<AsciiDigit[n + 1]>>
    ELSE FormatInt(n \div 10) \o <<AsciiDigit[(n % 10) + 1]>>

\* pickString without the float64 and bool cases
RECURSIVE pickStringStringsOnly(_, _)
pickStringStringsOnly(m, keys) ==
    IF keys = <<>> THEN <<>>
    ELSE IF Head(keys) \in DOMAIN m /\ m[Head(keys)].t = "string" THEN m[Head(keys)].s
    ELSE pickStringStringsOnly(m, Tail(keys))

RECURSIVE pickString(_, _)
\* pickString: the first key that is present with a string, number or bool
\* value decides, even when that value is the empty string.
pickString(m, keys) ==
    IF keys = <<>> THEN <<>>
    ELSE LET k == Head(keys) IN
         IF k \in DOMAIN m /\ m[k].t = "string" THEN m[k].s
         ELSE IF k \in DOMAIN m /\ m[k].t = "number" THEN FormatInt(m[k].n)
         ELSE IF k \in DOMAIN m /\ m[k].t = "bool"
              THEN (IF m[k].b THEN <<"t","r","u","e">> ELSE <<"f","a","l","s","e">>)
         ELSE pickString(m, Tail(keys))

IdKeys     == <<"camera_id", "cameraId", "cameraID", "id">>
NameKeys   == <<"name", "device_name", "deviceName">>
SiteKeys   == <<"site", "site_name", "siteName">>
ModelKeys  == <<"model", "device_model", "deviceModel">>
SerialKeys == <<"serial", "serial_number", "serialNumber">>
StatusKeys == <<"status", "camera_status", "cameraStatus">>
TzKeys     == <<"timezone", "time_zone", "timeZone">>

\* json.Marshal of a map: the members in key order.  The model keeps the
\* encoded text as the list of (key, value) pairs; ObjectKeys fixes the order.
ObjectKeys == <<"camera_id", "deviceName", "id", "model", "name", "site", "site_name">>

RECURSIVE MarshalFrom(_, _)
MarshalFrom(m, keys) ==
    IF keys = <<>> THEN <<>>
    ELSE IF Head(keys) \in DOMAIN m
         THEN <<<<Head(keys), m[Head(keys)]>>>> \o MarshalFrom(m, Tail(keys))
         ELSE MarshalFrom(m, Tail(keys))

jsonMarshal(m) == MarshalFrom(m, ObjectKeys)

\* json.Unmarshal into map[string]any
jsonUnmarshal(raw) ==
    [k \in {raw[i][1] : i \in DOMAIN raw} |->
        (raw[CHOOSE i \in DOMAIN raw : raw[i][1] = k])[2]]

-----------------------------------------------------------------------------
(* Inputs *)

IdCam1  == <<"c","a","m","-","1">>
IdCam2  == <<"c","a","m","-","2">>
IdBlank == <<" ">>

TxtDoor       == <<"D","o","o","r">>
TxtLobby      == <<"L","o","b","b","y">>
TxtHQ         == <<"H","Q">>
TxtCathedrals == <<"C","a","t","h","e","d","r","a","l","s">>

\* "Cathedral - Nave"
LblNave   == <<"C","a","t","h","e","d","r","a","l"," ","-"," ","N","a","v","e">>
\* " Front desk ": blanks around it
LblFront  == <<" ","F","r","o","n","t"," ","d","e","s","k"," ">>
\* whitespace only
LblBlank  == <<" "," ">>
\* "Etage" with E acute as its first letter
LblEtage  == <<"U+00C9","t","a","g","e">>

RecCam1  == [camera_id |-> S(IdCam1), name |-> S(TxtDoor), site |-> S(TxtHQ), model |-> N(40)]
\* the id under a fallback key, behind a null camera_id
RecCam2  == [camera_id |-> JNull, id |-> S(IdCam2), deviceName |-> S(TxtLobby),
             site_name |-> S(TxtCathedrals)]
\* no usable id
RecBlank == [camera_id |-> S(IdBlank), name |-> S(TxtLobby)]

Records == {RecCam1, RecCam2, RecBlank}

\* the longest record list of one rebuild
MaxCams == 2

\* The characters of the model in the order of their UTF-8 bytes.
CharOrder ==
    <<" ", "!", "-", "/">> \o AsciiDigit \o <<":", "?">> \o AsciiUpper \o AsciiLower
    \o <<"U+00A0", "U+00C9", "U+00E9", "U+212A">>

RECURSIVE StrLess(_, _)
\* a < b on Go strings: byte-wise lexicographic
StrLess(a, b) ==
    IF b = <<>> THEN FALSE
    ELSE IF a = <<>> THEN TRUE
    ELSE IF Head(a) = Head(b) THEN StrLess(Tail(a), Tail(b))
    ELSE IndexOf(CharOrder, Head(a)) < IndexOf(CharOrder, Head(b))

\* the order fetchAllCameras leaves the records in: sort.Slice by id
SortedById(cams) ==
    \A i \in 1..(Len(cams) - 1) :
        ~StrLess(pickString(cams[i + 1], IdKeys), pickString(cams[i], IdKeys))

\* the record lists the build command passes to rebuildCamerasIndex
CamLists == {cams \in UNION {[1..n -> Records] : n \in 0..MaxCams} : SortedById(cams)}

NoLabels == [i \in {} |-> <<>>]

\* label maps of the caller (cfg.Labels.Cameras)
LabelMaps ==
    { NoLabels,
      [i \in {IdCam1, IdCam2} |-> IF i = IdCam1 THEN LblBlank ELSE LblFront] }

Provenances ==
    { [base_url |-> <<"h","t","t","p","s",":","/","/","a","p","i">>, org_id |-> <<"O","R","G">>,
       profile |-> <<"d","e","f","a","u","l","t">>] }

\* the largest clock value
MaxClock == 2

-----------------------------------------------------------------------------
(* The store: the four tables of initCamerasIndexSchema *)

camerasIndexSchemaVersion == 1

\* cameras and labels are keyed by camera_id (PRIMARY KEY), meta by key;
\* cameras_fts has no key: it is the list of its rows in rowid order.
EmptyTables == [cameras |-> <<>>, labels |-> <<>>, fts |-> <<>>, meta |-> <<>>]

Without(f, k) == [x \in DOMAIN f \ {k} |-> f[x]]

\* One SQL statement on the tables t: [err, t].  A failed statement changes
\* nothing.
Exec(t, st) ==
    CASE st.op = "deleteAll" ->
            [err |-> FALSE, t |-> [t EXCEPT ![st.table] = <<>>]]
      [] st.op = "upsertMeta" ->
            [err |-> FALSE, t |-> [t EXCEPT !.meta = (st.key :> st.value) @@ t.meta]]
      [] st.op = "insertCamera" ->
            IF st.id \in DOMAIN t.cameras
            THEN [err |-> TRUE, t |-> t]     \* UNIQUE constraint failed: cameras.camera_id
            ELSE [err |-> FALSE, t |-> [t EXCEPT !.cameras = (st.id :> st.row) @@ t.cameras]]
      [] st.op = "insertLabel" ->
            IF st.id \in DOMAIN t.labels
            THEN [err |-> TRUE, t |-> t]
            ELSE [err |-> FALSE, t |-> [t EXCEPT !.labels = (st.id :> st.row) @@ t.labels]]
      [] st.op = "upsertLabel" ->
            [err |-> FALSE, t |-> [t EXCEPT !.labels = (st.id :> st.row) @@ t.labels]]
      [] st.op = "deleteLabel" ->
            [err |-> FALSE, t |-> [t EXCEPT !.labels = Without(t.labels, st.id)]]
      [] st.op = "insertFts" ->
            [err |-> FALSE, t |-> [t EXCEPT !.fts = Append(t.fts, st.row)]]
      [] st.op = "deleteFts" ->
            [err |-> FALSE, t |-> [t EXCEPT !.fts = SelectSeq(t.fts, LAMBDA r : r.camera_id # st.id)]]
      [] st.op = "insertFtsSelect" ->
            \* INSERT INTO cameras_fts ... SELECT ... FROM cameras WHERE camera_id=?
            IF st.id \in DOMAIN t.cameras
            THEN LET c == t.cameras[st.id] IN
                 [err |-> FALSE, t |-> [t EXCEPT !.fts = Append(t.fts,
                     [camera_id |-> st.id, name |-> c.name, site |-> c.site, label |-> st.label,
                      model |-> c.model, serial |-> c.serial, status |-> c.status,
                      timezone |-> c.timezone])]]
            ELSE [err |-> FALSE, t |-> t]

\* A connection with an open transaction: db is what is committed, tx what
\* the transaction sees.
TxExec(conn, st) ==
    LET r == Exec(conn.tx, st) IN [err |-> r.err, conn |-> [conn EXCEPT !.tx = r.t]]

\* the same statement in autocommit mode (db.Exec instead of tx.Exec)
AutocommitExec(conn, st) ==
    LET r == Exec(conn.tx, st) IN [err |-> r.err, conn |-> [db |-> r.t, tx |-> r.t]]

\* the statements of a rebuild with INSERT OR REPLACE INTO cameras
RebuildExecReplace(conn, st) ==
    IF st.op = "insertCamera"
    THEN [err |-> FALSE,
          conn |-> [conn EXCEPT !.tx = [conn.tx EXCEPT !.cameras = (st.id :> st.row) @@ conn.tx.cameras]]]
    ELSE TxExec(conn, st)

\* tx.Exec / stmt.Exec of rebuildCamerasIndex
RebuildExec(conn, st) == TxExec(conn, st)

\* tx.Exec of tryUpdateIndexLabel
PatchExec(conn, st) == TxExec(conn, st)

\* os.Stat(path) that ignores its error
StatNeverFails(store) == FALSE

\* os.Stat(path) returns an error: there is no index file
StatMissing(store) == ~store.fileExists

SchemaTables == <<"meta", "cameras", "labels", "fts">>

\* CREATE [VIRTUAL] TABLE IF NOT EXISTS: a table that exists keeps its rows
CreateIfNotExists(t, table) ==
    IF table \in DOMAIN t THEN t
    ELSE [x \in DOMAIN t \cup {table} |-> IF x = table THEN <<>> ELSE t[x]]

RECURSIVE CreateAll(_, _)
CreateAll(t, tables) ==
    IF tables = <<>> THEN t
    ELSE CreateAll(CreateIfNotExists(t, Head(tables)), Tail(tables))

\* a schema step that drops the tables and creates them anew
initCamerasIndexSchemaRecreate(t) == [x \in Range(SchemaTables) |-> <<>>]

\* initCamerasIndexSchema on the committed tables (the pragmas change no row)
initCamerasIndexSchema(t) == CreateAll(t, SchemaTables)

NoFault == [kind |-> "none", site |-> "none", n |-> 0]

\* Where a call stops short: an error returned by the store ("error") or the
\* process being killed ("kill") at mkdir/open (before the file exists), in
\* the schema step (the file exists), at Begin, at the n-th statement of the
\* transaction, or at Commit.
Faults(nStmts) ==
    {NoFault}
    \cup [kind : {"error", "kill"}, site : {"mkdir", "schema", "begin", "commit"}, n : {0}]
    \cup [kind : {"error", "kill"}, site : {"stmt"}, n : 1..nStmts]

-----------------------------------------------------------------------------
(* rebuildCamerasIndex *)

\* labels[id] of a Go map: the zero value "" for a missing key
MapGet(labels, id) == IF id \in DOMAIN labels THEN labels[id] ELSE <<>>

\* the meta statements without the one for built_at
MetaStmtsNoBuiltAt(prov, now) ==
    << [op |-> "upsertMeta", key |-> "schema_version", value |-> FormatInt(camerasIndexSchemaVersion)],
       [op |-> "upsertMeta", key |-> "base_url", value |-> prov.base_url],
       [op |-> "upsertMeta", key |-> "org_id", value |-> prov.org_id],
       [op |-> "upsertMeta", key |-> "profile", value |-> prov.profile] >>

MetaStmts(prov, now) ==
    << [op |-> "upsertMeta", key |-> "schema_version", value |-> FormatInt(camerasIndexSchemaVersion)],
       [op |-> "upsertMeta", key |-> "built_at", value |-> FormatInt(now)],
       [op |-> "upsertMeta", key |-> "base_url", value |-> prov.base_url],
       [op |-> "upsertMeta", key |-> "org_id", value |-> prov.org_id],
       [op |-> "upsertMeta", key |-> "profile", value |-> prov.profile] >>

\* one iteration that indexes the label as the map holds it, untrimmed
RecordStmtsRawLabel(c, labels, now) ==
    LET id    == pickString(c, IdKeys)
        label == TrimSpace(MapGet(labels, id))
        row   == [name |-> pickString(c, NameKeys), site |-> pickString(c, SiteKeys),
                  model |-> pickString(c, ModelKeys), serial |-> pickString(c, SerialKeys),
                  status |-> pickString(c, StatusKeys), timezone |-> pickString(c, TzKeys)]
    IN  IF TrimSpace(id) = <<>> THEN <<>>
        ELSE << [op |-> "insertCamera", id |-> id,
                 row |-> row @@ [updated_at |-> now, raw_json |-> jsonMarshal(c)]] >>
             \o (IF label # <<>>
                 THEN << [op |-> "insertLabel", id |-> id,
                          row |-> [label |-> label, updated_at |-> now]] >>
                 ELSE <<>>)
             \o << [op |-> "insertFts",
                    row |-> row @@ [camera_id |-> id, label |-> MapGet(labels, id)]] >>

\* one iteration that does not skip a record without an id
RecordStmtsNoSkip(c, labels, now) ==
    LET id    == pickString(c, IdKeys)
        label == TrimSpace(MapGet(labels, id))
        row   == [name |-> pickString(c, NameKeys), site |-> pickString(c, SiteKeys),
                  model |-> pickString(c, ModelKeys), serial |-> pickString(c, SerialKeys),
                  status |-> pickString(c, StatusKeys), timezone |-> pickString(c, TzKeys)]
    IN  << [op |-> "insertCamera", id |-> id,
            row |-> row @@ [updated_at |-> now, raw_json |-> jsonMarshal(c)]] >>
        \o (IF label # <<>>
            THEN << [op |-> "insertLabel", id |-> id,
                     row |-> [label |-> label, updated_at |-> now]] >>
            ELSE <<>>)
        \o << [op |-> "insertFts", row |-> row @@ [camera_id |-> id, label |-> label]] >>

\* the statements of one iteration of the loop over cams
RecordStmts(c, labels, now) ==
    LET id    == pickString(c, IdKeys)
        name  == pickString(c, NameKeys)
        site  == pickString(c, SiteKeys)
        model == pickString(c, ModelKeys)
        serial == pickString(c, SerialKeys)
        status == pickString(c, StatusKeys)
        tz    == pickString(c, TzKeys)
        label == TrimSpace(MapGet(labels, id))
    IN  IF TrimSpace(id) = <<>> THEN <<>>
        ELSE << [op |-> "insertCamera", id |-> id,
                 row |-> [name |-> name, site |-> site, model |-> model, serial |-> serial,
                          status |-> status, timezone |-> tz, updated_at |-> now,
                          raw_json |-> jsonMarshal(c)]] >>
             \o (IF label # <<>>
                 THEN << [op |-> "insertLabel", id |-> id,
                          row |-> [label |-> label, updated_at |-> now]] >>
                 ELSE <<>>)
             \o << [op |-> "insertFts",
                    row |-> [camera_id |-> id, name |-> name, site |-> site, label |-> label,
                             model |-> model, serial |-> serial, status |-> status,
                             timezone |-> tz]] >>

RECURSIVE AllRecordStmts(_, _, _)
AllRecordStmts(cams, labels, now) ==
    IF cams = <<>> THEN <<>>
    ELSE RecordStmts(Head(cams), labels, now) \o AllRecordStmts(Tail(cams), labels, now)

\* the transaction without its DELETE FROM cameras_fts
RebuildStmtsKeepFts(prov, cams, labels, now) ==
    << [op |-> "deleteAll", table |-> "cameras"],
       [op |-> "deleteAll", table |-> "labels"] >>
    \o MetaStmts(prov, now)
    \o AllRecordStmts(cams, labels, now)

\* the transaction without its DELETE FROM labels
RebuildStmtsKeepLabels(prov, cams, labels, now) ==
    << [op |-> "deleteAll", table |-> "cameras"],
       [op |-> "deleteAll", table |-> "fts"] >>
    \o MetaStmts(prov, now)
    \o AllRecordStmts(cams, labels, now)

\* the statements of the rebuild transaction, in program order
RebuildStmts(prov, cams, labels, now) ==
    << [op |-> "deleteAll", table |-> "cameras"],
       [op |-> "deleteAll", table |-> "labels"],
       [op |-> "deleteAll", table |-> "fts"] >>
    \o MetaStmts(prov, now)
    \o AllRecordStmts(cams, labels, now)

\* where in the transaction statement i lies
StageOf(i) == IF i <= 3 THEN "deletes" ELSE IF i <= 8 THEN "meta" ELSE "records"

RECURSIVE RunRebuild(_, _, _, _)
\* Statement i onwards: stop at the fault or at the first statement error.
RunRebuild(conn, stmts, i, fault) ==
    IF i > Len(stmts) THEN [stop |-> "none", at |-> "commit", conn |-> conn]
    ELSE IF fault.site = "stmt" /\ fault.n = i
    THEN [stop |-> "fault", at |-> StageOf(i), conn |-> conn]
    ELSE LET r == RebuildExec(conn, stmts[i]) IN
         IF r.err THEN [stop |-> "error", at |-> StageOf(i), conn |-> r.conn]
         ELSE RunRebuild(r.conn, stmts, i + 1, fault)

FaultRet(fault) == IF fault.kind = "kill" THEN "killed" ELSE "err"

\* The call on the store [fileExists, db], given the statements its
\* transaction runs: [ret, at, fileExists, db].  ret is "nil", "err", or
\* "killed" when the process did not live to return; at is the part of the
\* call that was reached.
rebuildTransaction(store, stmts, fault) ==
    IF fault.site = "mkdir"
    THEN [ret |-> FaultRet(fault), at |-> "open", fileExists |-> store.fileExists, db |-> store.db]
    ELSE IF fault.site = "schema"
    THEN [ret |-> FaultRet(fault), at |-> "open", fileExists |-> TRUE, db |-> store.db]
    ELSE IF fault.site = "begin"
    THEN [ret |-> FaultRet(fault), at |-> "open", fileExists |-> TRUE,
          db |-> initCamerasIndexSchema(store.db)]
    ELSE LET t0  == initCamerasIndexSchema(store.db)
             run == RunRebuild([db |-> t0, tx |-> t0], stmts, 1, fault)
         IN  IF run.stop = "error"
             THEN \* return err; the deferred Rollback drops the transaction
                  [ret |-> "err", at |-> run.at, fileExists |-> TRUE, db |-> run.conn.db]
             ELSE IF run.stop = "fault" \/ fault.site = "commit"
             THEN [ret |-> FaultRet(fault), at |-> run.at, fileExists |-> TRUE, db |-> run.conn.db]
             ELSE \* Commit
                  [ret |-> "nil", at |-> "commit", fileExists |-> TRUE, db |-> run.conn.tx]

\* the whole call
rebuildCamerasIndex(store, prov, cams, labels, now, fault) ==
    rebuildTransaction(store, RebuildStmts(prov, cams, labels, now), fault)

-----------------------------------------------------------------------------
(* tryUpdateIndexLabel *)

NilLabel == [nil |-> TRUE, s |-> <<>>]
Lbl(str) == [nil |-> FALSE, s |-> str]

\* the statements of a patch that writes the labels table alone
PatchStmtsLabelOnly(cameraID, label, now) ==
    << IF label.nil \/ TrimSpace(label.s) = <<>>
       THEN [op |-> "deleteLabel", id |-> cameraID]
       ELSE [op |-> "upsertLabel", id |-> cameraID,
             row |-> [label |-> TrimSpace(label.s), updated_at |-> now]] >>

\* the statements of a patch that leaves the old shadow row in place
PatchStmtsNoFtsDelete(cameraID, label, now) ==
    << IF label.nil \/ TrimSpace(label.s) = <<>>
       THEN [op |-> "deleteLabel", id |-> cameraID]
       ELSE [op |-> "upsertLabel", id |-> cameraID,
             row |-> [label |-> TrimSpace(label.s), updated_at |-> now]],
       [op |-> "insertFtsSelect", id |-> cameraID,
        label |-> IF label.nil THEN <<>> ELSE TrimSpace(label.s)] >>

\* the statements of a patch that empties cameras_fts instead of deleting
\* the rows of one camera_id
PatchStmtsDeleteAllFts(cameraID, label, now) ==
    << IF label.nil \/ TrimSpace(label.s) = <<>>
       THEN [op |-> "deleteLabel", id |-> cameraID]
       ELSE [op |-> "upsertLabel", id |-> cameraID,
             row |-> [label |-> TrimSpace(label.s), updated_at |-> now]],
       [op |-> "deleteAll", table |-> "fts"],
       [op |-> "insertFtsSelect", id |-> cameraID,
        label |-> IF label.nil THEN <<>> ELSE TrimSpace(label.s)] >>

PatchStmts(cameraID, label, now) ==
    << IF label.nil \/ TrimSpace(label.s) = <<>>
       THEN [op |-> "deleteLabel", id |-> cameraID]
       ELSE [op |-> "upsertLabel", id |-> cameraID,
             row |-> [label |-> TrimSpace(label.s), updated_at |-> now]],
       [op |-> "deleteFts", id |-> cameraID],
       [op |-> "insertFtsSelect", id |-> cameraID,
        label |-> IF label.nil THEN <<>> ELSE TrimSpace(label.s)] >>

RECURSIVE RunPatch(_, _, _)
\* every statement's error is discarded
RunPatch(conn, stmts, i) ==
    IF i > Len(stmts) THEN conn
    ELSE RunPatch(PatchExec(conn, stmts[i]).conn, stmts, i + 1)

\* The whole call: the store afterwards.
tryUpdateIndexLabel(store, cameraID, label, now) ==
    IF TrimSpace(cameraID) = <<>> THEN store
    ELSE IF StatMissing(store) THEN store
    ELSE LET t0 == initCamerasIndexSchema(store.db) IN
         [fileExists |-> TRUE,
          db |-> RunPatch([db |-> t0, tx |-> t0], PatchStmts(cameraID, label, now), 1).tx]

\* Where a patch stops short or loses a statement: sql.Open, the schema step
\* and Begin return before anything is written; the n-th tx.Exec fails; Commit
\* fails.
PatchFaults(nStmts) ==
    [kind : {"error"}, site : {"open", "schema", "begin", "commit"}, n : {0}]
    \cup [kind : {"error"}, site : {"stmt"}, n : 1..nStmts]

RECURSIVE RunPatchFault(_, _, _, _)
\* _, _ = tx.Exec(...): the failed statement writes nothing, its error is
\* discarded and the statements after it run
RunPatchFault(conn, stmts, i, fault) ==
    IF i > Len(stmts) THEN conn
    ELSE IF fault.site = "stmt" /\ fault.n = i THEN RunPatchFault(conn, stmts, i + 1, fault)
    ELSE RunPatchFault(PatchExec(conn, stmts[i]).conn, stmts, i + 1, fault)

\* The whole call when a step of it fails: the store afterwards.
tryUpdateIndexLabelFault(store, cameraID, label, now, fault) ==
    IF TrimSpace(cameraID) = <<>> THEN store
    ELSE IF StatMissing(store) THEN store
    ELSE IF fault.site \in {"open", "schema"} THEN store
    ELSE IF fault.site = "begin"
    THEN [fileExists |-> TRUE, db |-> initCamerasIndexSchema(store.db)]
    ELSE LET t0   == initCamerasIndexSchema(store.db)
             conn == RunPatchFault([db |-> t0, tx |-> t0],
                                   PatchStmts(cameraID, label, now), 1, fault)
         IN  \* _ = tx.Commit(); the deferred Rollback drops what is not committed
             IF fault.site = "commit" THEN [fileExists |-> TRUE, db |-> conn.db]
             ELSE [fileExists |-> TRUE, db |-> conn.tx]

-----------------------------------------------------------------------------
(* searchCamerasIndex *)

SearchColumns == {"name", "site", "label", "model", "serial", "status", "timezone"}

\* every term matches a word of some indexed column (camera_id is UNINDEXED)
FtsAllTermsMatch(row, terms) ==
    \A k \in DOMAIN terms :
        \E col \in SearchColumns :
            \E w \in Range(FtsTokens(row[col])) : FtsTermMatchesWord(terms[k], w)

\* cameras_fts MATCH expr on one row
FtsRowMatches(row, groups) ==
    \E g \in DOMAIN groups : FtsAllTermsMatch(row, groups[g])

\* the limit as given to the SELECT
EffectiveLimitUnclamped(limit) == IF limit <= 0 THEN 20 ELSE limit

\* lines 541-546
EffectiveLimit(limit) == IF limit <= 0 THEN 20 ELSE IF limit > 500 THEN 500 ELSE limit

Min(a, b) == IF a <= b THEN a ELSE b

RECURSIVE KSubsets(_, _)
\* the subsets of M that have n elements
KSubsets(M, n) ==
    IF n = 0 THEN {{}}
    ELSE IF n = Cardinality(M) THEN {M}
    ELSE LET x == CHOOSE y \in M : TRUE
         IN  KSubsets(M \ {x}, n) \cup {K \cup {x} : K \in KSubsets(M \ {x}, n - 1)}

RECURSIVE IndicesInOrder(_, _, _)
IndicesInOrder(K, i, n) ==
    IF i > n THEN <<>>
    ELSE (IF i \in K THEN <<i>> ELSE <<>>) \o IndicesInOrder(K, i + 1, n)

\* The rows the SELECT returns for the chosen shadow rows K (the loop of
\* lines 576-593 decodes raw_json; a row that does not decode is skipped).
SearchRows(t, K) ==
    LET idx == IndicesInOrder(K, 1, Len(t.fts))
    IN  [k \in DOMAIN idx |->
            [camera_id |-> t.fts[idx[k]].camera_id,
             camera |-> jsonUnmarshal(t.cameras[t.fts[idx[k]].camera_id].raw_json)]]

\* The possible returns of the whole call.  err is "notexist" (os.Stat),
\* "noquery" (buildFTSQuery), "fts" (the engine rejects the expression) or
\* "nil".  executed tells whether the SELECT ran and sqlLimit the value bound
\* to its LIMIT; fileExists tells whether the file exists afterwards (sql.Open
\* and the schema step create a missing file).  The SELECT returns the
\* sqlLimit best-ranked rows of the join; bm25 is not computed here, so any
\* choice of that many matching rows is a possible return.
searchCamerasIndex(store, q, limit) ==
    IF StatMissing(store)
    THEN {[err |-> "notexist", executed |-> FALSE, sqlLimit |-> 0, results |-> <<>>,
           fileExists |-> store.fileExists, db |-> store.db]}
    ELSE LET fts == buildFTSQuery(q) IN
         IF fts.err
         THEN {[err |-> "noquery", executed |-> FALSE, sqlLimit |-> 0, results |-> <<>>,
                fileExists |-> store.fileExists, db |-> store.db]}
         ELSE LET parse == FtsParse(fts.expr)
                  t     == initCamerasIndexSchema(store.db)
                  lim   == EffectiveLimit(limit)
                  M     == {i \in DOMAIN t.fts :
                               /\ FtsRowMatches(t.fts[i], parse.groups)
                               /\ t.fts[i].camera_id \in DOMAIN t.cameras}
                  n     == Min(lim, Cardinality(M))
              IN  IF ~parse.ok
                  THEN {[err |-> "fts", executed |-> TRUE, sqlLimit |-> lim, results |-> <<>>,
                         fileExists |-> TRUE, db |-> t]}
                  ELSE {[err |-> "nil", executed |-> TRUE, sqlLimit |-> lim,
                         results |-> SearchRows(t, K), fileExists |-> TRUE, db |-> t] :
                           K \in KSubsets(M, n)}

ResultIds(results) == {results[i].camera_id : i \in DOMAIN results}

-----------------------------------------------------------------------------
(* readCamerasIndexStatus *)

DigitValue(c) == IndexOf(AsciiDigit, c) - 1

RECURSIVE ParseDigits(_, _)
ParseDigits(str, acc) ==
    IF str = <<>> THEN acc
    ELSE ParseDigits(Tail(str), acc * 10 + DigitValue(Head(str)))

\* strconv.Atoi / strconv.ParseInt(s, 10, 64) of an unsigned text, with the
\* error discarded: 0 for a text that is no number
ParseInt(str) ==
    IF str # <<>> /\ \A i \in DOMAIN str : IsAsciiDigit(str[i])
    THEN ParseDigits(str, 0)
    ELSE 0

\* getMeta: the value of the key, "" when the row is missing
getMeta(t, key) == IF key \in DOMAIN t.meta THEN t.meta[key] ELSE <<>>

\* The whole call: the status and whether the file exists afterwards.
readCamerasIndexStatus(store) ==
    IF StatMissing(store)
    THEN [err |-> "notexist", exists |-> FALSE, schema_version |-> 0, built_at |-> 0,
          base_url |-> <<>>, org_id |-> <<>>, profile |-> <<>>, camera_count |-> 0,
          fileExists |-> store.fileExists, db |-> store.db]
    ELSE LET t == initCamerasIndexSchema(store.db) IN
         [err |-> "nil", exists |-> TRUE,
          schema_version |-> ParseInt(getMeta(t, "schema_version")),
          built_at |-> ParseInt(getMeta(t, "built_at")),
          base_url |-> getMeta(t, "base_url"),
          org_id |-> getMeta(t, "org_id"),
          profile |-> getMeta(t, "profile"),
          camera_count |-> Cardinality(DOMAIN t.cameras),
          fileExists |-> TRUE, db |-> t]

-----------------------------------------------------------------------------
(* The state machine *)

QCathedral   == <<"c","a","t","h","e","d","r","a","l">>
QNave        == <<"N","a","v","e","!">>
QTage        == <<"t","a","g","e">>
\* "cameras in cathedral"
QInCathedral == <<"c","a","m","e","r","a","s"," ","i","n"," ","c","a","t","h","e","d","r","a","l">>
\* "cathedral desk"
QCathDesk    == <<"c","a","t","h","e","d","r","a","l"," ","d","e","s","k">>
QThe         == <<"t","h","e">>
QPunct       == <<"!","?">>

Queries == {QCathedral, QNave, QTage, QInCathedral, QCathDesk, QThe, QPunct}
Limits  == {0, 1}

PatchIds    == {IdCam1, IdCam2, IdBlank}
PatchLabels == {NilLabel, Lbl(LblBlank), Lbl(LblNave), Lbl(LblEtage)}

\* the labels given to a patch in which a step fails: none and a plain one
FaultLabels == {NilLabel, Lbl(LblNave)}

NoCall == [op |-> "none"]

\* the command is not resolving a path / not fetching
Idle == [pc |-> "off"]

\* time.Now(): the clock does not go back
Now == {n \in 1..MaxClock : clock <= n /\ n <= clock + 1}

Store == [fileExists |-> fileExists, db |-> db]

Init ==
    /\ fileExists = FALSE
    /\ db = EmptyTables
    /\ clock = 0
    /\ last = NoCall
    /\ res = NoCall
    /\ query = <<>>
    /\ tokens = <<>>
    /\ built = NoCall
    /\ qpc = "off"
    /\ path = Idle
    /\ fetch = Idle
    /\ cfgLabels = NoLabels

\* the records of cams that are indexed: those with a non-blank id
Indexed(cams) == {i \in DOMAIN cams : TrimSpace(pickString(cams[i], IdKeys)) # <<>>}

\* no two indexed records of cams have the same id (cameras.camera_id is the
\* primary key)
IdsDistinct(cams) ==
    \A i, j \in Indexed(cams) :
        i # j => pickString(cams[i], IdKeys) # pickString(cams[j], IdKeys)

\* the call before was a successful rebuild from the same input (with had,
\* what the tables held before the call, it is kept in last for the
\* properties that speak of what a rebuild replaces)
SameRebuild(l, prov, cams, labels) ==
    /\ l.op = "rebuild" /\ l.ret = "nil"
    /\ l.prov = prov /\ l.cams = cams /\ l.labels = labels

RebuildCall(prov, cams, labels, now, stmts, fault) ==
    \E out \in {rebuildTransaction(Store, stmts, fault)} :
        /\ fileExists' = out.fileExists
        /\ db' = out.db
        /\ clock' = now
        /\ last' = IF out.ret = "nil"
                   THEN [op |-> "rebuild", ret |-> "nil", prov |-> prov, cams |-> cams,
                         labels |-> labels, now |-> now,
                         again |-> SameRebuild(last, prov, cams, labels),
                         had |-> [cameras |-> DOMAIN db.cameras # {},
                                  labels |-> DOMAIN db.labels # {},
                                  base_url |-> IF "base_url" \in DOMAIN db.meta
                                               THEN db.meta["base_url"] ELSE <<>>]]
                   ELSE IF fault = NoFault
                   THEN [op |-> "rebuild", ret |-> out.ret, at |-> out.at,
                         unique |-> IdsDistinct(cams)]
                   ELSE [op |-> "rebuild", ret |-> out.ret, at |-> out.at]
        /\ res' = NoCall
        /\ UNCHANGED <<queryVars, cmdVars>>

\* a rebuild that no failure of the store interrupts
Rebuild ==
    /\ res = NoCall
    /\ \E prov \in Provenances, cams \in CamLists, labels \in LabelMaps, now \in Now :
          RebuildCall(prov, cams, labels, now, RebuildStmts(prov, cams, labels, now), NoFault)

\* a rebuild in which a step fails
RebuildFails ==
    /\ res = NoCall
    /\ \E prov \in Provenances, cams \in CamLists, labels \in LabelMaps, now \in Now :
          \E stmts \in {RebuildStmts(prov, cams, labels, now)} :
            \E fault \in Faults(Len(stmts)) :
              fault.kind = "error" /\ RebuildCall(prov, cams, labels, now, stmts, fault)

\* a rebuild whose process is killed before it commits
RebuildKilled ==
    /\ res = NoCall
    /\ \E prov \in Provenances, cams \in CamLists, labels \in LabelMaps, now \in Now :
          \E stmts \in {RebuildStmts(prov, cams, labels, now)} :
            \E fault \in Faults(Len(stmts)) :
              fault.kind = "kill" /\ RebuildCall(prov, cams, labels, now, stmts, fault)

Patch ==
    /\ res = NoCall
    /\ \E id \in PatchIds, label \in PatchLabels, now \in Now :
        \E out \in {tryUpdateIndexLabel(Store, id, label, now)} :
            /\ fileExists' = out.fileExists
            /\ db' = out.db
            /\ clock' = now
            /\ last' = [op |-> "patch", ret |-> "nil", id |-> id, label |-> label,
                        old |-> IF id \in DOMAIN db.labels THEN Lbl(db.labels[id].label)
                                ELSE NilLabel]
            /\ UNCHANGED <<res, queryVars, cmdVars>>

\* a label patch in which a step fails
PatchFails ==
    /\ res = NoCall
    \* cameras_fts has no key: each patch whose shadow delete fails adds a row,
    \* without end; the patch starts while no such extra row is there
    /\ Len(db.fts) <= Cardinality(DOMAIN db.cameras)
    /\ \E id \in PatchIds, label \in FaultLabels, now \in Now :
        \E fault \in PatchFaults(Len(PatchStmts(id, label, now))) :
          \E out \in {tryUpdateIndexLabelFault(Store, id, label, now, fault)} :
            /\ fileExists' = out.fileExists
            /\ db' = out.db
            /\ clock' = now
            /\ last' = [op |-> "patch", ret |-> "nil", id |-> id, label |-> label,
                        old |-> IF id \in DOMAIN db.labels THEN Lbl(db.labels[id].label)
                                ELSE NilLabel,
                        fault |-> fault, ran |-> ~StatMissing(Store) /\ TrimSpace(id) # <<>>]
            /\ UNCHANGED <<res, queryVars, cmdVars>>

SearchCall(q, limit) ==
    \E out \in searchCamerasIndex(Store, q, limit) :
        /\ res' = [op |-> "search", q |-> q, limit |-> limit, err |-> out.err,
                   executed |-> out.executed, sqlLimit |-> out.sqlLimit,
                   results |-> out.results]
        /\ fileExists' = out.fileExists
        /\ db' = out.db
        /\ UNCHANGED <<clock, last, queryVars, cmdVars>>

Search ==
    /\ res = NoCall
    /\ \E q \in Queries, limit \in Limits : SearchCall(q, limit)

Status ==
    /\ res = NoCall
    /\ \E out \in {readCamerasIndexStatus(Store)} :
        /\ res' = [op |-> "status", err |-> out.err, exists |-> out.exists,
                   schema_version |-> out.schema_version, built_at |-> out.built_at,
                   base_url |-> out.base_url, org_id |-> out.org_id,
                   profile |-> out.profile, camera_count |-> out.camera_count]
        /\ fileExists' = out.fileExists
        /\ db' = out.db
        /\ UNCHANGED <<clock, last, queryVars, cmdVars>>

\* the caller is done with the response; the next call starts
Discard ==
    /\ res # NoCall
    /\ res' = NoCall
    /\ UNCHANGED <<fileExists, db, clock, last, queryVars, cmdVars>>

Next == Rebuild \/ Patch \/ Search \/ Status \/ Discard

Spec == Init /\ [][Next]_vars

\* rebuilds and searches, with the failures of the store and the kills
NextFault == Rebuild \/ RebuildFails \/ RebuildKilled \/ Search \/ Status \/ Discard

SpecFault == Init /\ [][NextFault]_vars

-----------------------------------------------------------------------------
(* The query pipeline on every short query *)

QAlphabet == {"a", "n", "A", "1", " ", "-", "U+212A"}

\* the longest query
MaxQLen == 4

QueryInputs == UNION {[1..k -> QAlphabet] : k \in 0..MaxQLen}

\* an index built from two cameras, one of them labelled
BuiltStore ==
    rebuildCamerasIndex([fileExists |-> FALSE, db |-> EmptyTables],
                        CHOOSE prov \in Provenances : TRUE, <<RecCam1, RecCam2>>,
                        [i \in {IdCam2} |-> LblFront], 1, NoFault)

InitQuery ==
    /\ fileExists = BuiltStore.fileExists
    /\ db = BuiltStore.db
    /\ clock = 1
    /\ last = [op |-> "rebuild", ret |-> BuiltStore.ret]
    /\ res = NoCall
    /\ query \in QueryInputs
    /\ tokens = <<>>
    /\ built = NoCall
    /\ qpc = "input"
    /\ path = Idle
    /\ fetch = Idle
    /\ cfgLabels = NoLabels

TokenizeQuery ==
    /\ qpc = "input"
    /\ tokens' = tokenizeQuery(query)
    /\ qpc' = "tokenized"
    /\ UNCHANGED <<storeVars, cmdVars, query, built>>

BuildFTSQuery ==
    /\ qpc = "tokenized"
    /\ built' = buildFTSQuery(query)
    /\ qpc' = "built"
    /\ UNCHANGED <<storeVars, cmdVars, query, tokens>>

SearchQuery ==
    /\ qpc = "built"
    /\ \E limit \in Limits :
        \E out \in searchCamerasIndex(Store, query, limit) :
            /\ res' = [op |-> "search", q |-> query, limit |-> limit, err |-> out.err,
                       executed |-> out.executed, sqlLimit |-> out.sqlLimit,
                       results |-> out.results]
            /\ fileExists' = out.fileExists
            /\ db' = out.db
    /\ qpc' = "searched"
    /\ UNCHANGED <<clock, last, query, tokens, built, cmdVars>>

NextQuery == TokenizeQuery \/ BuildFTSQuery \/ SearchQuery

SpecQuery == InitQuery /\ [][NextQuery]_vars

-----------------------------------------------------------------------------
(* Searches of an index of many cameras, with limits around the clamps *)

\* the number of cameras of the large index
MaxRows == 22

TxtA == <<"a">>

\* camera i of the large index: {"camera_id": "c<i>", "name": "a"}
RowRecord(i) == [camera_id |-> S(<<"c">> \o FormatInt(i)), name |-> S(TxtA)]

ManyStore ==
    rebuildCamerasIndex([fileExists |-> FALSE, db |-> EmptyTables],
                        CHOOSE prov \in Provenances : TRUE,
                        [i \in 1..MaxRows |-> RowRecord(i)], NoLabels, 1, NoFault)

ClampLimits == {-1, 0, 1, 20, 21, 500, 501}

InitLimit ==
    /\ fileExists = ManyStore.fileExists
    /\ db = ManyStore.db
    /\ clock = 1
    /\ last = [op |-> "rebuild", ret |-> ManyStore.ret]
    /\ res = NoCall
    /\ query = <<>>
    /\ tokens = <<>>
    /\ built = NoCall
    /\ qpc = "off"
    /\ path = Idle
    /\ fetch = Idle
    /\ cfgLabels = NoLabels

SearchClamp ==
    /\ res = NoCall
    /\ \E limit \in ClampLimits : SearchCall(TxtA, limit)

NextLimit == SearchClamp \/ Discard

SpecLimit == InitLimit /\ [][NextLimit]_vars

-----------------------------------------------------------------------------
(* Rebuilds from one record, over the shapes a record's id and name keys take *)

TxtX == <<"x">>

PickKeys   == {"camera_id", "id", "name", "deviceName"}
\* "", "x" and null
PickValues == {S(<<>>), S(TxtX), JNull}

PickRecords == UNION {[K -> PickValues] : K \in SUBSET PickKeys}

RebuildPick ==
    /\ res = NoCall
    /\ \E prov \in Provenances, c \in PickRecords, now \in Now :
          RebuildCall(prov, <<c>>, NoLabels, now,
                      RebuildStmts(prov, <<c>>, NoLabels, now), NoFault)

NextPick == RebuildPick

SpecPick == Init /\ [][NextPick]_vars

-----------------------------------------------------------------------------
(* Rebuilds under changing provenance, and the status after them *)

\* another configuration: another host, no organization, another profile
ProvOther ==
    [base_url |-> <<"h","t","t","p",":","/","/","b">>, org_id |-> <<>>, profile |-> <<"p","2">>]

MetaProvenances == Provenances \cup {ProvOther}

RebuildMeta ==
    /\ res = NoCall
    /\ \E prov \in MetaProvenances, cams \in CamLists, now \in Now :
          RebuildCall(prov, cams, NoLabels, now,
                      RebuildStmts(prov, cams, NoLabels, now), NoFault)

NextMeta == RebuildMeta \/ Status \/ Discard

SpecMeta == Init /\ [][NextMeta]_vars

-----------------------------------------------------------------------------
(* Rebuilds without labels, and label patches in which a step fails *)

NextPatchFault == RebuildMeta \/ PatchFails \/ Status \/ Discard

SpecPatchFault == Init /\ [][NextPatchFault]_vars

-----------------------------------------------------------------------------
(* camerasIndexPath, sanitizePathComponent *)

\* the placeholder of sanitizePathComponent: "unknown"
Unknown == <<"u","n","k","n","o","w","n">>

\* the switch of sanitizePathComponent's loop on one rune of the lower-cased text
SanitizeRune(r) ==
    IF IsAsciiLower(r) \/ IsAsciiDigit(r) \/ r \in {".", "-", "_"} THEN r ELSE "_"

RECURSIVE TrimCutset(_, _)
\* strings.Trim(s, cutset) for a cutset of one character
TrimCutset(s, c) ==
    IF s # <<>> /\ Head(s) = c THEN TrimCutset(Tail(s), c)
    ELSE IF s # <<>> /\ s[Len(s)] = c THEN TrimCutset(SubSeq(s, 1, Len(s) - 1), c)
    ELSE s

\* sanitizePathComponent without its strings.Trim(out, "_")
sanitizePathComponentNoTrim(s) ==
    LET t == TrimSpace(s) IN
    IF t = <<>> THEN Unknown
    ELSE LET l == ToLower(t) IN [i \in DOMAIN l |-> SanitizeRune(l[i])]

sanitizePathComponent(s) ==
    LET t == TrimSpace(s) IN
    IF t = <<>> THEN Unknown
    ELSE LET l   == ToLower(t)
             b   == [i \in DOMAIN l |-> SanitizeRune(l[i])]
             out == TrimCutset(b, "_")
         IN  IF out = <<>> THEN Unknown ELSE out

RECURSIVE firstNonEmpty(_)
\* firstNonEmpty: the first value that is not blank, as it is; "" when all are
firstNonEmpty(vs) ==
    IF vs = <<>> THEN <<>>
    ELSE IF TrimSpace(Head(vs)) # <<>> THEN Head(vs)
    ELSE firstNonEmpty(Tail(vs))

\* strings.Index of one character: 0 when s does not hold it
FirstIndex(s, c) ==
    IF c \in Range(s) THEN CHOOSE i \in DOMAIN s : s[i] = c /\ \A j \in 1..(i - 1) : s[j] # c
    ELSE 0

\* strings.LastIndex of one character: 0 when s does not hold it
LastIndex(s, c) ==
    IF c \in Range(s) THEN CHOOSE i \in DOMAIN s : s[i] = c /\ \A j \in (i + 1)..Len(s) : s[j] # c
    ELSE 0

\* s up to the first c, all of s when it does not hold c
Before(s, c) == IF FirstIndex(s, c) = 0 THEN s ELSE SubSeq(s, 1, FirstIndex(s, c) - 1)

IsAsciiLetter(c) == IsAsciiLower(c) \/ IsAsciiUpper(c)

\* getScheme of net/url: [err, scheme, rest]
UrlScheme(raw) ==
    LET stop == {i \in DOMAIN raw : ~IsAsciiLetter(raw[i])}
        i    == IF stop = {} THEN 0 ELSE CHOOSE k \in stop : \A j \in stop : k <= j
    IN  IF i = 0 THEN [err |-> FALSE, scheme |-> <<>>, rest |-> raw]
        ELSE IF raw[i] = ":"
             THEN IF i = 1 THEN [err |-> TRUE, scheme |-> <<>>, rest |-> <<>>]
                  ELSE [err |-> FALSE, scheme |-> SubSeq(raw, 1, i - 1),
                        rest |-> SubSeq(raw, i + 1, Len(raw))]
        ELSE IF i > 1 /\ (IsAsciiDigit(raw[i]) \/ raw[i] \in {"+", "-", "."})
             THEN \* the scheme goes on over digits, "+", "-" and "."
                  LET stop2 == {k \in i..Len(raw) :
                                   ~(IsAsciiLetter(raw[k]) \/ IsAsciiDigit(raw[k])
                                     \/ raw[k] \in {"+", "-", "."})}
                      k2    == IF stop2 = {} THEN 0 ELSE CHOOSE k \in stop2 : \A j \in stop2 : k <= j
                  IN  IF k2 # 0 /\ raw[k2] = ":"
                      THEN [err |-> FALSE, scheme |-> SubSeq(raw, 1, k2 - 1),
                            rest |-> SubSeq(raw, k2 + 1, Len(raw))]
                      ELSE [err |-> FALSE, scheme |-> <<>>, rest |-> raw]
        ELSE [err |-> FALSE, scheme |-> <<>>, rest |-> raw]

\* a host of net/url's parseHost is refused: a port that is no number, or a
\* character that a host cannot hold
UrlHostInvalid(host) ==
    \/ LastIndex(host, ":") # 0
        /\ \E i \in (LastIndex(host, ":") + 1)..Len(host) : ~IsAsciiDigit(host[i])
    \/ \E i \in DOMAIN host : host[i] \in {" ", "/", "?", "#", "@"}

\* u, err := url.Parse(cfg.BaseURL): u.Host, "" when err != nil or the URL has no
\* authority
UrlHost(baseURL) ==
    LET nofrag == Before(baseURL, "#")
        sch    == UrlScheme(nofrag)
        rest   == Before(sch.rest, "?")
        slashes == Len(rest) >= 2 /\ rest[1] = "/" /\ rest[2] = "/"
        triple == Len(rest) >= 3 /\ rest[3] = "/"
        auth   == Before(SubSeq(rest, 3, Len(rest)), "/")
        host   == SubSeq(auth, LastIndex(auth, "@") + 1, Len(auth))
    IN  IF sch.err THEN <<>>
        ELSE IF ~slashes THEN <<>>
        ELSE IF sch.scheme = <<>> /\ triple THEN <<>>
        ELSE IF UrlHostInvalid(host) THEN <<>>
        ELSE host

\* selectedProfileNameFromConfig: the --profile flag, the environment, the
\* current_profile of the config file (when it loads), "default"
selectedProfileNameFromConfig(rf) ==
    IF rf.configLoads
    THEN firstNonEmpty(<<rf.Profile, rf.Env, rf.CurrentProfile, <<"d","e","f","a","u","l","t">>>>)
    ELSE firstNonEmpty(<<rf.Profile, rf.Env, <<"d","e","f","a","u","l","t">>>>)

RECURSIVE Clean(_, _)
\* filepath.Clean on the elements of a rooted path: "." is dropped and ".."
\* takes the element before it away (none at the root)
Clean(elems, acc) ==
    IF elems = <<>> THEN acc
    ELSE IF Head(elems) \in {<<>>, <<".">>} THEN Clean(Tail(elems), acc)
    ELSE IF Head(elems) = <<".", ".">>
         THEN Clean(Tail(elems), IF acc = <<>> THEN acc ELSE SubSeq(acc, 1, Len(acc) - 1))
         ELSE Clean(Tail(elems), Append(acc, Head(elems)))

\* filepath.Join of path elements that hold no separator; a path is the
\* sequence of its elements below the root
filepathJoin(elems) == Clean(elems, <<>>)

\* os.UserCacheDir(): /home/u/.cache
CacheDir == <<<<"h","o","m","e">>, <<"u">>, <<".","c","a","c","h","e">>>>

\* the host component without the sanitizing of line 246
camerasIndexHost(cfg) ==
    IF TrimSpace(cfg.BaseURL) # <<>> /\ TrimSpace(UrlHost(cfg.BaseURL)) # <<>>
    THEN UrlHost(cfg.BaseURL)
    ELSE Unknown

\* camerasIndexPath (when os.UserCacheDir succeeds)
camerasIndexPath(rf, cfg) ==
    LET host    == sanitizePathComponent(camerasIndexHost(cfg))
        org     == sanitizePathComponent(firstNonEmpty(<<cfg.OrgID, <<"n","o","-","o","r","g">>>>))
        profile == sanitizePathComponent(
                       firstNonEmpty(<<selectedProfileNameFromConfig(rf), <<"d","e","f","a","u","l","t">>>>))
        dir     == filepathJoin(CacheDir \o <<<<"v","e","r","k","c","l","i">>, <<"i","n","d","e","x">>, host, org, profile>>)
    IN  filepathJoin(dir \o <<<<"c","a","m","e","r","a","s",".","s","q","l","i","t","e">>>>)

\* base URLs of the configuration: none, two spellings of one host, the host
\* "..", and a text without scheme
BaseURLs == { <<>>, <<"h","t","t","p","s",":","/","/","a","p","i">>,
              <<"h","t","t","p","s",":","/","/","A","P","I">>, <<"h","t","t","p","s",":","/","/",".",".">>, <<"a","p","i">> }

OrgIDs == { <<>>, <<"O","R","G">>, <<"o","r","g">>, <<".",".">>, <<"n","o","-","o","r","g">> }

Configs == [BaseURL : BaseURLs, OrgID : OrgIDs]

Flags(profile, env, current, loads) ==
    [Profile |-> profile, Env |-> env, CurrentProfile |-> current, configLoads |-> loads]

\* the profile selection: nothing set, --profile Prod, current_profile prod,
\* --profile .., VERKCLI_PROFILE=p and a config file that does not load
RootFlags ==
    { Flags(<<>>, <<>>, <<>>, TRUE),
      Flags(<<"P","r","o","d">>, <<>>, <<>>, TRUE),
      Flags(<<>>, <<>>, <<"p","r","o","d">>, TRUE),
      Flags(<<".",".">>, <<>>, <<"p","r","o","d">>, TRUE),
      Flags(<<>>, <<"p">>, <<"p","r","o","d">>, FALSE) }

PathCalls == [rf : RootFlags, cfg : Configs]

\* two runs of the command, each under its own configuration
InitPath ==
    /\ fileExists = FALSE
    /\ db = EmptyTables
    /\ clock = 0
    /\ last = NoCall
    /\ res = NoCall
    /\ query = <<>>
    /\ tokens = <<>>
    /\ built = NoCall
    /\ qpc = "off"
    /\ path \in {[pc |-> "input", calls |-> <<a, b>>, out |-> <<>>] : a, b \in PathCalls}
    /\ fetch = Idle
    /\ cfgLabels = NoLabels

\* the next run resolves its index path
CamerasIndexPath ==
    /\ path.pc = "input"
    /\ LET call == path.calls[Len(path.out) + 1]
           out  == Append(path.out, camerasIndexPath(call.rf, call.cfg))
       IN  path' = [path EXCEPT !.out = out,
                                !.pc = IF Len(out) = Len(path.calls) THEN "done" ELSE "input"]
    /\ UNCHANGED <<storeVars, queryVars, fetch, cfgLabels>>

NextPath == CamerasIndexPath

SpecPath == InitPath /\ [][NextPath]_vars

\* the characters of a path component: letters of both cases, a digit, the
\* characters kept as they are, blanks, a separator and letters outside ASCII
CompAlphabet == {"a", "A", "1", "_", ".", "-", " ", "/", "U+00C9", "U+212A"}

\* the longest path component
MaxCompLen == 3

CompInputs == UNION {[1..k -> CompAlphabet] : k \in 0..MaxCompLen}

InitSanitize ==
    /\ fileExists = FALSE
    /\ db = EmptyTables
    /\ clock = 0
    /\ last = NoCall
    /\ res = NoCall
    /\ query = <<>>
    /\ tokens = <<>>
    /\ built = NoCall
    /\ qpc = "off"
    /\ path \in {[pc |-> "component", s |-> s] : s \in CompInputs}
    /\ fetch = Idle
    /\ cfgLabels = NoLabels

SanitizePathComponent ==
    /\ path.pc = "component"
    /\ path' = [pc |-> "sanitized", s |-> path.s, out |-> sanitizePathComponent(path.s)]
    /\ UNCHANGED <<storeVars, queryVars, fetch, cfgLabels>>

\* the component that was sanitized is sanitized once more
SanitizeAgain ==
    /\ path.pc = "sanitized"
    /\ path' = [pc |-> "resanitized", s |-> path.s, out |-> path.out,
                again |-> sanitizePathComponent(path.out)]
    /\ UNCHANGED <<storeVars, queryVars, fetch, cfgLabels>>

NextSanitize == SanitizePathComponent \/ SanitizeAgain

SpecSanitize == InitSanitize /\ [][NextSanitize]_vars

-----------------------------------------------------------------------------
(* fetchAllCameras *)

\* a record with the id of RecCam1 under the key "id" and another name
RecCam1b == [id |-> S(IdCam1), name |-> S(TxtLobby)]

\* the "cameras" arrays of the pages of the remote
PageCamLists == { <<RecCam2>>, <<RecCam1>>, <<RecCam1b, RecBlank>> }

Tok1 == <<"t","1">>
Tok2 == <<"t","2">>

\* next_page_token of a page: "", " ", "t1", "t2"
PageTokens == { <<>>, <<" ">>, Tok1, Tok2 }

TokenKeys == <<"next_page_token", "nextPageToken", "next_page", "nextPage">>

\* the most pages the remote has
MaxPages == 3

\* What the remote answers: a JSON body with cameras and a token, or a
\* failure: no answer ("transport"), an HTML page ("html"), a status >= 400
\* ("status"), a body without a cameras array ("json").
OkResponses ==
    {[fail |-> "none", body |-> [cameras |-> cams, next_page_token |-> S(tok)]] :
        cams \in PageCamLists, tok \in PageTokens}

FailedResponses ==
    {[fail |-> f, body |-> [cameras |-> <<>>, next_page_token |-> S(<<>>)]] :
        f \in {"transport", "html", "status", "json"}}

\* extractCamerasAndNextToken of a JSON body that has a cameras array
extractCamerasAndNextToken(body) ==
    [cams |-> body.cameras, token |-> pickString(body, TokenKeys)]

\* the page size of every request: lines 297-302
PageSize(pageSize) == IF pageSize <= 0 THEN 200 ELSE IF pageSize > 200 THEN 200 ELSE pageSize

\* the query of doCamerasDevicesRequest: page_token is set when it is not blank
DevicesRequest(pageToken, pageSize) ==
    [page_token |-> IF TrimSpace(pageToken) # <<>> THEN pageToken ELSE <<>>,
     page_size |-> PageSize(pageSize)]

\* cams with c put in at position k
InsertAt(cams, k, c) == SubSeq(cams, 1, k - 1) \o <<c>> \o SubSeq(cams, k, Len(cams))

\* the record lists a build is left with when the sort is left out
SortResultsUnsorted(agg) == {agg}

RECURSIVE SortResults(_)
\* sort.Slice(agg, less by id): the sort is not stable, so every order of agg
\* that is sorted by id is a possible result
SortResults(agg) ==
    IF agg = <<>> THEN {<<>>}
    ELSE LET c == agg[Len(agg)] IN
         UNION { {InsertAt(r, k, c) : k \in {j \in 1..(Len(r) + 1) : SortedById(InsertAt(r, j, c))}} :
                 r \in SortResults(SubSeq(agg, 1, Len(agg) - 1)) }

\* --page-size of the build command
PageSizes == {0, 50, 500}

InitFetch ==
    /\ fileExists = FALSE
    /\ db = EmptyTables
    /\ clock = 0
    /\ last = NoCall
    /\ res = NoCall
    /\ query = <<>>
    /\ tokens = <<>>
    /\ built = NoCall
    /\ qpc = "off"
    /\ path = Idle
    /\ fetch \in {[pc |-> "loop", pageSize |-> n, next |-> <<>>, agg |-> <<>>, pages |-> <<>>] :
                    n \in PageSizes}
    /\ cfgLabels = NoLabels

\* the answers of the remote to the next request: its last page has a blank
\* token
Responses ==
    IF Len(fetch.pages) + 1 < MaxPages THEN OkResponses \cup FailedResponses
    ELSE {r \in OkResponses : TrimSpace(r.body.next_page_token.s) = <<>>} \cup FailedResponses

\* One turn of the loop of fetchAllCameras, with the sort and the return when
\* the loop ends.
FetchPage ==
    /\ fetch.pc = "loop"
    /\ \E resp \in Responses :
        LET req   == DevicesRequest(fetch.next, fetch.pageSize)
            pages == Append(fetch.pages, [req |-> req, resp |-> resp])
            page  == extractCamerasAndNextToken(resp.body)
            agg   == fetch.agg \o page.cams
        IN  IF resp.fail # "none"
            THEN fetch' = [pc |-> "failed", pages |-> pages]
            ELSE IF TrimSpace(page.token) = <<>>
            THEN \E sorted \in SortResults(agg) :
                    fetch' = [pc |-> "done", pages |-> pages, result |-> sorted]
            ELSE fetch' = [pc |-> "loop", pageSize |-> fetch.pageSize, next |-> page.token,
                           agg |-> agg, pages |-> pages]
    /\ UNCHANGED <<storeVars, queryVars, path, cfgLabels>>

NextFetch == FetchPage

\* the loop of a running command goes on
SpecFetch == InitFetch /\ [][NextFetch]_vars /\ WF_vars(FetchPage)

-----------------------------------------------------------------------------
(* A writer (rebuild or label patch) statement by statement, and the        *)
(* searches of another process while its transaction is open.  last holds   *)
(* the open call: its statements, the next one, and tx, the tables as the   *)
(* transaction sees them; db is what is committed, which is all that        *)
(* another connection reads.                                                 *)

Running == last.op # "none" /\ last.ret = "running"

\* the record lists of the rebuilds next to which searches run
ConcCamLists == { <<RecCam1>>, <<RecCam1, RecCam1>>, <<RecCam1, RecCam2>> }

\* the labels of the patches next to which searches run: none, "Cathedral - Nave"
ConcLabels == {NilLabel, Lbl(LblNave)}

\* "cathedral" and "Nave!"
ConcQueries == {QCathedral, QNave}

\* rebuildCamerasIndex up to db.Begin(): the file and the schema are there
BeginRebuild ==
    /\ res = NoCall /\ ~Running
    /\ \E prov \in Provenances, cams \in ConcCamLists, labels \in LabelMaps, now \in Now :
        /\ last' = [op |-> "rebuild", ret |-> "running",
                    stmts |-> RebuildStmts(prov, cams, labels, now), i |-> 1,
                    tx |-> initCamerasIndexSchema(db), before |-> initCamerasIndexSchema(db)]
        /\ clock' = now
    /\ fileExists' = TRUE
    /\ db' = initCamerasIndexSchema(db)
    /\ UNCHANGED <<res, queryVars, cmdVars>>

\* tryUpdateIndexLabel up to db.Begin()
BeginPatch ==
    /\ res = NoCall /\ ~Running
    /\ ~StatMissing(Store)
    /\ \E id \in PatchIds, label \in ConcLabels, now \in Now :
        /\ TrimSpace(id) # <<>>
        /\ last' = [op |-> "patch", ret |-> "running",
                    stmts |-> PatchStmts(id, label, now), i |-> 1,
                    tx |-> initCamerasIndexSchema(db), before |-> initCamerasIndexSchema(db)]
        /\ clock' = now
    /\ db' = initCamerasIndexSchema(db)
    /\ UNCHANGED <<fileExists, res, queryVars, cmdVars>>

\* the next statement of the open transaction; a rebuild returns at a failed
\* statement and its deferred Rollback drops the transaction
WriterStep ==
    /\ Running /\ last.i <= Len(last.stmts)
    /\ LET conn == [db |-> db, tx |-> last.tx]
           r    == IF last.op = "rebuild" THEN RebuildExec(conn, last.stmts[last.i])
                   ELSE PatchExec(conn, last.stmts[last.i])
       IN  /\ db' = r.conn.db
           /\ last' = IF last.op = "rebuild" /\ r.err
                      THEN [op |-> "rebuild", ret |-> "err", before |-> last.before]
                      ELSE [last EXCEPT !.tx = r.conn.tx, !.i = last.i + 1]
    /\ UNCHANGED <<fileExists, clock, res, queryVars, cmdVars>>

\* tx.Commit()
WriterCommit ==
    /\ Running /\ last.i > Len(last.stmts)
    /\ db' = last.tx
    /\ last' = [op |-> last.op, ret |-> "nil", before |-> last.before]
    /\ UNCHANGED <<fileExists, clock, res, queryVars, cmdVars>>

\* a search of another process, at any moment
SearchBeside ==
    /\ res = NoCall
    /\ \E q \in ConcQueries, limit \in Limits : SearchCall(q, limit)

NextConcurrent ==
    BeginRebuild \/ BeginPatch \/ WriterStep \/ WriterCommit \/ SearchBeside \/ Discard

SpecConcurrent == Init /\ [][NextConcurrent]_vars

-----------------------------------------------------------------------------
(* The label commands (cameras label set / rm) and the index build *)

\* the arguments of the label commands: camera ids and labels as typed
LabelArgIds == {IdCam1, IdCam2, IdBlank}
LabelArgs   == {LblNave, LblFront, LblBlank}

\* cameras label set CAMERA_ID LABEL: the label goes into the config profile
\* and the config file is written; nothing else is done
LabelSet ==
    /\ res = NoCall
    /\ \E id \in LabelArgIds, label \in LabelArgs :
        LET cameraID == TrimSpace(id)
            l        == TrimSpace(label)
        IN  IF cameraID = <<>> \/ l = <<>>
            THEN \* "camera_id is empty" / "label is empty"
                 /\ last' = [op |-> "labelset", ret |-> "err", id |-> cameraID]
                 /\ UNCHANGED cfgLabels
            ELSE /\ cfgLabels' = (cameraID :> l) @@ cfgLabels
                 /\ last' = [op |-> "labelset", ret |-> "nil", id |-> cameraID]
    /\ UNCHANGED <<fileExists, db, clock, res, queryVars, path, fetch>>

\* cameras label rm CAMERA_ID
LabelRm ==
    /\ res = NoCall
    /\ \E id \in LabelArgIds :
        LET cameraID == TrimSpace(id) IN
        IF cameraID = <<>>
        THEN /\ last' = [op |-> "labelrm", ret |-> "err", id |-> cameraID]
             /\ UNCHANGED cfgLabels
        ELSE /\ cfgLabels' = Without(cfgLabels, cameraID)
             /\ last' = [op |-> "labelrm", ret |-> "nil", id |-> cameraID]
    /\ UNCHANGED <<fileExists, db, clock, res, queryVars, path, fetch>>

\* cameras index build: a rebuild with the labels of the config profile
BuildIndex ==
    /\ res = NoCall
    /\ \E prov \in Provenances, cams \in CamLists, now \in Now :
          RebuildCall(prov, cams, cfgLabels, now,
                      RebuildStmts(prov, cams, cfgLabels, now), NoFault)

NextLabels == LabelSet \/ LabelRm \/ BuildIndex

SpecLabels == Init /\ [][NextLabels]_vars

-----------------------------------------------------------------------------
(* Claims *)

CameraIds(t) == DOMAIN t.cameras
LabelIds(t)  == DOMAIN t.labels
FtsIds(t)    == {t.fts[i].camera_id : i \in DOMAIN t.fts}
FtsRowsOf(t, id) == {i \in DOMAIN t.fts : t.fts[i].camera_id = id}

\* C1: in every state reached by rebuilds and label patches, the camera_ids
\* of cameras_fts are the camera_ids of cameras, and cameras_fts holds
\* exactly one row for each of them.
C1_ShadowIdsAreCameraIds ==
    /\ FtsIds(db) = CameraIds(db)
    /\ \A id \in CameraIds(db) : Cardinality(FtsRowsOf(db, id)) = 1

\* a label patch of an indexed camera has run on an index of two cameras
C1_Witness ==
    /\ last.op = "patch"
    /\ last.id \in CameraIds(db)
    /\ Cardinality(CameraIds(db)) = 2
    /\ FtsIds(db) = CameraIds(db)

\* the label the labels table holds for id, "" without a row
LabelOf(t, id) == IF id \in LabelIds(t) THEN t.labels[id].label ELSE <<>>

\* C2: for every camera_id of cameras, the label of its shadow row is the
\* label of its labels row, and empty when labels has no row for it.
C2_ShadowLabelIsLabel ==
    \A id \in CameraIds(db) :
        \A i \in FtsRowsOf(db, id) : db.fts[i].label = LabelOf(db, id)

\* a patch has put a label on an indexed camera, next to a camera without one
C2_Witness ==
    /\ last.op = "patch"
    /\ last.id \in CameraIds(db) \cap LabelIds(db)
    /\ \E i \in FtsRowsOf(db, last.id) : db.fts[i].label = db.labels[last.id].label
    /\ \E id \in CameraIds(db) \ LabelIds(db) : \E i \in FtsRowsOf(db, id) : db.fts[i].label = <<>>

\* The tables t hold what one rebuild from (prov, cams, labels, now) stores.
Reflects(t, prov, cams, labels, now) ==
    LET idOf(i) == pickString(cams[i], IdKeys)
        ids     == {idOf(i) : i \in Indexed(cams)}
        labelled == {id \in ids : TrimSpace(MapGet(labels, id)) # <<>>}
    IN  /\ DOMAIN t.cameras = ids
        /\ \A i \in Indexed(cams) :
              /\ t.cameras[idOf(i)].name = pickString(cams[i], NameKeys)
              /\ t.cameras[idOf(i)].site = pickString(cams[i], SiteKeys)
              /\ t.cameras[idOf(i)].model = pickString(cams[i], ModelKeys)
              /\ t.cameras[idOf(i)].updated_at = now
              /\ jsonUnmarshal(t.cameras[idOf(i)].raw_json) = cams[i]
              /\ \E k \in DOMAIN t.fts :
                    /\ t.fts[k].camera_id = idOf(i)
                    /\ t.fts[k].name = pickString(cams[i], NameKeys)
                    /\ t.fts[k].site = pickString(cams[i], SiteKeys)
                    /\ t.fts[k].label = TrimSpace(MapGet(labels, idOf(i)))
        /\ Len(t.fts) = Cardinality(ids)
        /\ DOMAIN t.labels = labelled
        /\ \A id \in labelled : t.labels[id] = [label |-> TrimSpace(labels[id]), updated_at |-> now]
        /\ DOMAIN t.meta = {"schema_version", "built_at", "base_url", "org_id", "profile"}
        /\ t.meta["schema_version"] = <<"1">>
        /\ t.meta["built_at"] = FormatInt(now)
        /\ t.meta["base_url"] = prov.base_url
        /\ t.meta["org_id"] = prov.org_id
        /\ t.meta["profile"] = prov.profile

\* C3: a rebuild that returns an error leaves the rows of all four tables
\* as they were before the call; a rebuild that returns nil leaves the four
\* tables holding the new input.
C3_RebuildAllOrNothing ==
    [][ (last'.op = "rebuild" /\ res' = NoCall /\ res = NoCall) =>
            /\ last'.ret = "err" => db' = db
            /\ last'.ret = "nil" =>
                  Reflects(db', last'.prov, last'.cams, last'.labels, last'.now) ]_vars

\* a rebuild has failed in its loop over the records, on an index that held cameras
C3_Witness ==
    /\ last.op = "rebuild" /\ last.ret = "err" /\ last.at = "records"
    /\ CameraIds(db) # {}

\* C4: a rebuild killed before its commit leaves the committed rows, which
\* every later search and status reads, as they were before the call.
C4_KilledRebuildKeepsCommitted ==
    [][ (last'.op = "rebuild" /\ last'.ret = "killed" /\ res' = NoCall /\ res = NoCall)
            => db' = db ]_vars

\* a rebuild was killed between its record inserts, on an index that held
\* cameras, and a later search still returns one of them
C4_Witness ==
    /\ last.op = "rebuild" /\ last.ret = "killed" /\ last.at = "records"
    /\ res.op = "search" /\ res.err = "nil" /\ res.results # <<>>

IsStopword(t) == t \in camerasSearchStopwords

\* the words of the terms the engine finds in an expression
TermWords(expr) ==
    LET p == FtsParse(expr) IN [k \in DOMAIN p.groups[1] |-> p.groups[1][k].word]

\* C8: the terms of the built expression are, in order, the tokens that are
\* no stopwords when there is one, and all the tokens when every token is a
\* stopword; each is a prefix term, and a query of stopwords is no error.
C8_StopwordsFilteredOrAllKept ==
    (qpc \in {"built", "searched"} /\ tokens # <<>>) =>
        LET nonstop == SelectSeq(tokens, LAMBDA t : ~IsStopword(t))
            parse   == FtsParse(built.expr)
        IN  /\ ~built.err
            /\ parse.ok /\ Len(parse.groups) = 1
            /\ TermWords(built.expr) = (IF nonstop # <<>> THEN nonstop ELSE tokens)
            /\ \A k \in DOMAIN parse.groups[1] : parse.groups[1][k].prefix

\* a query of two stopwords has been built into two terms
C8_Witness ==
    /\ qpc = "built"
    /\ Len(tokens) = 2 /\ \A k \in DOMAIN tokens : IsStopword(tokens[k])
    /\ ~built.err /\ TermWords(built.expr) = tokens

\* C9: buildFTSQuery, and the search of an existing index, fail exactly when
\* the query has no token, and then the SELECT is not executed; a query with
\* a token gives a non-empty expression.
C9_ErrorIffNoTokens ==
    /\ qpc \in {"built", "searched"} =>
          /\ built.err <=> (tokens = <<>>)
          /\ tokens # <<>> => built.expr # <<>>
    /\ qpc = "searched" =>
          /\ res.err # "nil" <=> (tokens = <<>>)
          /\ tokens = <<>> => (res.err = "noquery" /\ ~res.executed)
          /\ tokens # <<>> => res.executed

\* a query of punctuation and blanks has been refused without a SELECT
C9_Witness ==
    /\ qpc = "searched" /\ query # <<>> /\ tokens = <<>>
    /\ built.err /\ res.err = "noquery" /\ ~res.executed

\* q with every character outside [a-z0-9] replaced by a space
SpaceOut(q) == [i \in DOMAIN q |-> IF IsAsciiLower(q[i]) \/ IsAsciiDigit(q[i]) THEN q[i] ELSE " "]

TokensWellFormed(toks) ==
    \A k \in DOMAIN toks :
        /\ toks[k] # <<>>
        /\ \A i \in DOMAIN toks[k] : IsAsciiLower(toks[k][i]) \/ IsAsciiDigit(toks[k][i])

\* C10 as stated: tokenizeQuery(q) equals tokenizeQuery of q lower-cased
\* and of q itself with every character outside [a-z0-9] replaced by a
\* space; tokens are non-empty words over [a-z0-9]; the tokens joined by
\* spaces tokenize to themselves.
C10_AsStated ==
    qpc # "input" =>
        /\ tokens = tokenizeQuery(ToLower(query))
        /\ tokens = tokenizeQuery(SpaceOut(query))
        /\ TokensWellFormed(tokens)
        /\ tokenizeQuery(Join(tokens, <<" ">>)) = tokens

\* C10 amended: the replacement by spaces is made in the lower-cased q.
C10_TokenizeNormalizes ==
    qpc # "input" =>
        /\ tokens = tokenizeQuery(ToLower(query))
        /\ tokens = tokenizeQuery(SpaceOut(ToLower(query)))
        /\ TokensWellFormed(tokens)
        /\ tokenizeQuery(Join(tokens, <<" ">>)) = tokens

\* a query with an upper-case letter, punctuation and two tokens was tokenized
C10_Witness ==
    /\ qpc = "tokenized"
    /\ "A" \in Range(query) /\ "-" \in Range(query)
    /\ Len(tokens) = 2

\* the words of the terms searchCamerasIndex builds from q
QueryTerms(q) == KeepTokens(tokenizeQuery(q))

\* the word t is a prefix of a word the index holds for the row
PrefixOfSomeWord(t, row, cols) ==
    \E col \in cols : \E w \in Range(FtsTokens(row[col])) : IsPrefix(t, w)

\* C7: every camera a search returns has a shadow row in which every term
\* of the query is a prefix of a word of some searchable field; a camera
\* that matches only some of the terms is not returned.
C7_AndOfPrefixTerms ==
    (res.op = "search" /\ res.err = "nil") =>
        \A id \in ResultIds(res.results) :
            \E i \in FtsRowsOf(db, id) :
                \A k \in DOMAIN QueryTerms(res.q) :
                    PrefixOfSomeWord(QueryTerms(res.q)[k], db.fts[i], SearchColumns)

\* "cathedral desk" returned cam-2 and not cam-1, whose label matches
\* cathedral alone
C7_Witness ==
    /\ res.op = "search" /\ res.q = QCathDesk /\ res.err = "nil"
    /\ ResultIds(res.results) = {IdCam2}
    /\ IdCam1 \in CameraIds(db)
    /\ \E i \in FtsRowsOf(db, IdCam1) : PrefixOfSomeWord(QCathedral, db.fts[i], {"label"})

NonAscii == {"U+00C9", "U+00E9", "U+212A", "U+00A0"}
IsAsciiText(str) == \A i \in DOMAIN str : str[i] \notin NonAscii

\* the last writer call put a non-blank label on an indexed camera
PatchSetLabel ==
    /\ last.op = "patch"
    /\ ~last.label.nil /\ TrimSpace(last.label.s) # <<>>
    /\ last.id \in CameraIds(db)

\* the search that followed asked for one token of the text
SearchForTokenOf(text) ==
    /\ res.op = "search"
    /\ Len(tokenizeQuery(res.q)) = 1
    /\ tokenizeQuery(res.q)[1] \in Range(tokenizeQuery(text))

\* the shadow rows of cameras that the query of the last search matches
MatchingRows ==
    {i \in DOMAIN db.fts :
        /\ db.fts[i].camera_id \in CameraIds(db)
        /\ \A k \in DOMAIN QueryTerms(res.q) :
              PrefixOfSomeWord(QueryTerms(res.q)[k], db.fts[i], SearchColumns)}

\* C5 as stated: after a patch has set a non-blank label on an indexed
\* camera, a search for any token of the label returns the camera.
C5_AsStated ==
    (PatchSetLabel /\ SearchForTokenOf(last.label.s)) =>
        (res.err = "nil" /\ last.id \in ResultIds(res.results))

\* C5 amended: ... a non-blank ASCII label ..., a search for any token of
\* the label returns the camera when no more rows match than the effective
\* limit of the search allows.
C5_LabelTokenFound ==
    (/\ PatchSetLabel /\ SearchForTokenOf(last.label.s)
     /\ IsAsciiText(last.label.s)
     /\ Cardinality(MatchingRows) <= EffectiveLimit(res.limit)) =>
        (res.err = "nil" /\ last.id \in ResultIds(res.results))

\* the patch labelled cam-1, which nothing else made a match for "nave",
\* and the search for "Nave!" returned it
C5_Witness ==
    /\ PatchSetLabel /\ SearchForTokenOf(last.label.s)
    /\ last.id = IdCam1 /\ last.label = Lbl(LblNave) /\ last.old.nil
    /\ res.q = QNave /\ ResultIds(res.results) = {IdCam1}

\* the last writer call removed the label of an indexed camera that had one
PatchRemovedLabel ==
    /\ last.op = "patch"
    /\ last.label.nil \/ TrimSpace(last.label.s) = <<>>
    /\ last.id \in CameraIds(db)
    /\ ~last.old.nil

OtherColumns == SearchColumns \ {"label"}

\* C6 as stated: after the removal the labels row is gone, the shadow label
\* is empty, and a search for a token that was a word of the removed label
\* and of no other field does not return the camera.
C6_AsStated ==
    PatchRemovedLabel =>
        /\ last.id \notin LabelIds(db)
        /\ \A i \in FtsRowsOf(db, last.id) : db.fts[i].label = <<>>
        /\ (/\ SearchForTokenOf(last.old.s)
            /\ \A i \in FtsRowsOf(db, last.id) : \A col \in OtherColumns :
                  tokenizeQuery(res.q)[1] \notin Range(FtsTokens(db.fts[i][col])))
           => last.id \notin ResultIds(res.results)

\* C6 amended: ... a search for a token of the removed label that is a
\* prefix of no word of the camera's other fields does not return it.
C6_RemovedLabelNotFound ==
    PatchRemovedLabel =>
        /\ last.id \notin LabelIds(db)
        /\ \A i \in FtsRowsOf(db, last.id) : db.fts[i].label = <<>>
        /\ (/\ SearchForTokenOf(last.old.s)
            /\ \A i \in FtsRowsOf(db, last.id) :
                  ~PrefixOfSomeWord(tokenizeQuery(res.q)[1], db.fts[i], OtherColumns))
           => last.id \notin ResultIds(res.results)

\* the label "Cathedral - Nave" was removed from cam-1 and the search for
\* "Nave!" that followed returned nothing
C6_Witness ==
    /\ PatchRemovedLabel /\ SearchForTokenOf(last.old.s)
    /\ last.id = IdCam1 /\ last.old = Lbl(LblNave)
    /\ res.q = QNave /\ res.err = "nil" /\ res.results = <<>>
    /\ IdCam1 \notin LabelIds(db)

\* C11: the SELECT of a search is given the limit 20 when the requested limit
\* is <= 0, 500 when it is > 500, and the requested limit otherwise, and the
\* search returns no more results than that.
C11_LimitClamped ==
    (res.op = "search" /\ res.executed) =>
        /\ res.limit <= 0 => res.sqlLimit = 20
        /\ res.limit > 500 => res.sqlLimit = 500
        /\ (res.limit > 0 /\ res.limit <= 500) => res.sqlLimit = res.limit
        /\ Len(res.results) <= res.sqlLimit

\* a search with limit 0 returned 20 of more than 20 matching cameras
C11_Witness ==
    /\ res.op = "search" /\ res.limit = 0 /\ res.err = "nil"
    /\ Len(res.results) = 20
    /\ Cardinality(CameraIds(db)) > 20

\* C12: a search (of any query and limit) or a status of a path without an
\* index file returns the not-exist error and leaves the path without a file.
C12_MissingIndexNotFound ==
    [][ (res = NoCall /\ res' # NoCall /\ ~fileExists) =>
            (res'.err = "notexist" /\ ~fileExists') ]_vars

\* a search for punctuation alone was refused as not-found before any rebuild
C12_Witness ==
    /\ res.op = "search" /\ res.q = QPunct /\ res.err = "notexist"
    /\ ~fileExists /\ last = NoCall

\* the rows of a table without their updated_at
Untimed(rows) ==
    [id \in DOMAIN rows |-> [f \in DOMAIN rows[id] \ {"updated_at"} |-> rows[id][f]]]

\* what the searches of a store can return: the error and the camera_ids
SearchAnswers(store, q, limit) ==
    {[err |-> o.err, ids |-> ResultIds(o.results)] : o \in searchCamerasIndex(store, q, limit)}

\* C13: a successful rebuild that follows a successful rebuild from the same
\* records, label map and provenance leaves the camera, label and shadow rows
\* as they were, but for updated_at; every search can return the same
\* camera_ids and status reports the same camera_count.
C13_RebuildIdempotent ==
    [][ (/\ res = NoCall /\ res' = NoCall
         /\ last'.op = "rebuild" /\ last'.ret = "nil" /\ last'.again) =>
            /\ Untimed(db'.cameras) = Untimed(db.cameras)
            /\ Untimed(db'.labels) = Untimed(db.labels)
            /\ db'.fts = db.fts
            /\ \A q \in Queries, limit \in Limits :
                  SearchAnswers([fileExists |-> fileExists', db |-> db'], q, limit)
                    = SearchAnswers(Store, q, limit)
            /\ readCamerasIndexStatus([fileExists |-> fileExists', db |-> db']).camera_count
                  = readCamerasIndexStatus(Store).camera_count ]_vars

\* the second of two rebuilds from two cameras and a label, one second later
C13_Witness ==
    /\ last.op = "rebuild" /\ last.ret = "nil" /\ last.again
    /\ last.now = 2
    /\ Cardinality(CameraIds(db)) = 2 /\ LabelIds(db) # {}
    /\ \A id \in CameraIds(db) : db.cameras[id].updated_at = 2

\* the ids under which a rebuild indexes the records of cams
IndexedIds(cams) == {pickString(cams[i], IdKeys) : i \in Indexed(cams)}

\* C14: after a successful rebuild the cameras table holds exactly the
\* records of the input whose id is not blank, each under its id (none for an
\* empty input, whatever the table held before), and status counts them; a
\* rebuild does not fail on records with a blank id: it fails on two records
\* of one id only.
C14_CamerasAreIndexedRecords ==
    last.op = "rebuild" =>
        /\ last.ret = "err" => ~last.unique
        /\ last.ret = "nil" =>
              /\ CameraIds(db) = IndexedIds(last.cams)
              /\ \A i \in Indexed(last.cams) :
                    jsonUnmarshal(db.cameras[pickString(last.cams[i], IdKeys)].raw_json)
                        = last.cams[i]
              /\ readCamerasIndexStatus(Store).camera_count = Cardinality(Indexed(last.cams))
              /\ last.cams = <<>> => readCamerasIndexStatus(Store).camera_count = 0

\* a later rebuild from a record without id and cam-1 succeeded and left
\* cam-1 alone
C14_Witness ==
    /\ last.op = "rebuild" /\ last.ret = "nil" /\ ~last.again /\ last.had.cameras
    /\ last.cams = <<RecBlank, RecCam1>>
    /\ CameraIds(db) = {IdCam1}

\* the text of a value: what pickString returns for it, "" for null
TextOf(v) ==
    IF v.t = "string" THEN v.s
    ELSE IF v.t = "number" THEN FormatInt(v.n)
    ELSE IF v.t = "bool" THEN (IF v.b THEN <<"t","r","u","e">> ELSE <<"f","a","l","s","e">>)
    ELSE <<>>

RECURSIVE FirstNonEmpty(_, _)
\* the value of the first key of keys, in order, whose value in m is not empty
FirstNonEmpty(m, keys) ==
    IF keys = <<>> THEN <<>>
    ELSE IF Head(keys) \in DOMAIN m /\ TextOf(m[Head(keys)]) # <<>>
         THEN TextOf(m[Head(keys)])
         ELSE FirstNonEmpty(m, Tail(keys))

\* C15: a rebuild indexes each record under the value of the first id key
\* whose value is not empty, with the value of the first name key whose
\* value is not empty as its name: a record with camera_id "" and id "x" is
\* indexed as "x".
C15_FirstNonEmptyWins ==
    (last.op = "rebuild" /\ last.ret = "nil") =>
        \A i \in DOMAIN last.cams :
            LET id == FirstNonEmpty(last.cams[i], IdKeys) IN
            TrimSpace(id) # <<>> =>
                /\ id \in CameraIds(db)
                /\ db.cameras[id].name = FirstNonEmpty(last.cams[i], NameKeys)

\* the ids to which the label map of a rebuild gives a non-blank label
Labelled(cams, labels) ==
    {id \in IndexedIds(cams) : TrimSpace(MapGet(labels, id)) # <<>>}

\* C16: after a successful rebuild the labels table has a row for X exactly
\* when X is an indexed record of the input to which the label map gives a
\* non-blank label, and the row holds that label trimmed; no other row, of
\* an earlier rebuild or patch, is left.
C16_LabelsAreMapLabels ==
    (last.op = "rebuild" /\ last.ret = "nil") =>
        /\ LabelIds(db) = Labelled(last.cams, last.labels)
        /\ \A id \in LabelIds(db) : db.labels[id].label = TrimSpace(last.labels[id])

\* a rebuild of both cameras without labels emptied a labels table that had rows
C16_Witness ==
    /\ last.op = "rebuild" /\ last.ret = "nil" /\ last.had.labels
    /\ last.labels = NoLabels
    /\ CameraIds(db) = {IdCam1, IdCam2}
    /\ LabelIds(db) = {}

\* C17: the status read after a successful rebuild reports schema_version 1,
\* the base_url, org_id and profile of that rebuild and its time as built_at,
\* whatever the metadata held before; and no step makes built_at smaller.
C17_StatusReportsLastBuild ==
    [][ /\ (res'.op = "status" /\ last'.op = "rebuild" /\ last'.ret = "nil") =>
              /\ res'.err = "nil" /\ res'.exists
              /\ res'.schema_version = 1
              /\ res'.base_url = last'.prov.base_url
              /\ res'.org_id = last'.prov.org_id
              /\ res'.profile = last'.prov.profile
              /\ res'.built_at = last'.now
        /\ ParseInt(getMeta(db', "built_at")) >= ParseInt(getMeta(db, "built_at")) ]_vars

\* the status after a second rebuild, under another configuration and one
\* second later, reports that configuration and that time
C17_Witness ==
    /\ res.op = "status" /\ last.op = "rebuild" /\ last.ret = "nil"
    /\ last.prov = ProvOther /\ last.had.base_url \notin {<<>>, ProvOther.base_url}
    /\ res.base_url = ProvOther.base_url /\ res.org_id = <<>>
    /\ last.now = 2 /\ res.built_at = 2

\* the step is one call of tryUpdateIndexLabel
PatchStep == res = NoCall /\ res' = NoCall /\ last'.op = "patch"

\* the shadow rows of t, in order, but those of id
FtsWithout(t, id) == SelectSeq(t.fts, LAMBDA r : r.camera_id # id)

\* C18: a label patch for camera_id X leaves every row of cameras and meta,
\* and every labels row and shadow row of another camera_id, as it was.
C18_PatchTouchesOneCamera ==
    [][ PatchStep =>
            /\ db'.cameras = db.cameras
            /\ db'.meta = db.meta
            /\ Without(db'.labels, last'.id) = Without(db.labels, last'.id)
            /\ FtsWithout(db', last'.id) = FtsWithout(db, last'.id) ]_vars

\* cam-1 was labelled in an index where cam-2 has its label and shadow row
C18_Witness ==
    /\ last.op = "patch" /\ last.id = IdCam1 /\ last.label = Lbl(LblNave)
    /\ IdCam1 \in LabelIds(db)
    /\ IdCam2 \in CameraIds(db) \cap LabelIds(db)
    /\ \E i \in FtsRowsOf(db, IdCam2) : db.fts[i].label = db.labels[IdCam2].label

\* C19: a label patch on a path without an index file changes nothing: the
\* path is still without a file, no table has a row, and every status and
\* search after it returns the not-exist error.
C19_PatchWithoutIndexIsNoOp ==
    [][ (PatchStep /\ ~fileExists) =>
            /\ ~fileExists'
            /\ db' = db
            /\ readCamerasIndexStatus([fileExists |-> fileExists', db |-> db']).err = "notexist"
            /\ \A q \in Queries, limit \in Limits :
                  \A o \in searchCamerasIndex([fileExists |-> fileExists', db |-> db'], q, limit) :
                      o.err = "notexist" ]_vars

\* cam-1 was labelled before any rebuild, and the status after it is not-found
C19_Witness ==
    /\ last.op = "patch" /\ last.id = IdCam1 /\ last.label = Lbl(LblNave)
    /\ ~fileExists /\ db = EmptyTables
    /\ res.op = "status" /\ res.err = "notexist" /\ ~res.exists

\* C20: a label patch for a camera_id that the cameras table does not hold
\* creates, changes and deletes no row of any table, and changes the answer
\* of no search.
C20_PatchOfUnknownIsNoOp ==
    [][ (PatchStep /\ last'.id \notin CameraIds(db)) =>
            /\ db' = db
            /\ \A q \in Queries, limit \in Limits :
                  SearchAnswers([fileExists |-> fileExists', db |-> db'], q, limit)
                    = SearchAnswers(Store, q, limit) ]_vars

\* C21: a label patch in which a statement fails (the label upsert or delete,
\* the shadow delete or the shadow re-insert) leaves the rows of every table as
\* they were before the call, so that shadow ids = camera ids and shadow
\* label = label value still hold after it.
C21_FailedPatchChangesNothing ==
    [][ (/\ res = NoCall /\ res' = NoCall
         /\ last'.op = "patch" /\ last'.ran /\ last'.fault.site = "stmt") =>
            /\ db' = db
            /\ C1_ShadowIdsAreCameraIds'
            /\ C2_ShadowLabelIsLabel' ]_vars

\* the provenance of a run: the host of its base URL, its org id and its
\* profile name
Triple(call) ==
    <<UrlHost(call.cfg.BaseURL), call.cfg.OrgID, selectedProfileNameFromConfig(call.rf)>>

\* C22: two runs whose (base-URL host, org id, profile name) triples differ
\* resolve to different index file paths.
C22_PathInjectiveOnProvenance ==
    path.pc = "done" =>
        (Triple(path.calls[1]) # Triple(path.calls[2]) => path.out[1] # path.out[2])

\* the characters sanitizePathComponent lets through
IsPathChar(c) == IsAsciiLower(c) \/ IsAsciiDigit(c) \/ c \in {".", "_", "-"}

\* no character of s is kept as a character other than the separator "_"
NothingRemains(s) ==
    \A i \in DOMAIN s :
        LET l == ToLowerRune(s[i]) IN ~(IsAsciiLower(l) \/ IsAsciiDigit(l) \/ l \in {".", "-"})

\* C23: for every input, sanitizePathComponent returns a non-empty text over
\* [a-z0-9._-] that neither starts nor ends with "_"; it returns "unknown"
\* when no character of the input remains; and sanitizing its output returns
\* the output unchanged.
C23_SanitizeWellFormed ==
    /\ path.pc \in {"sanitized", "resanitized"} =>
          /\ path.out # <<>>
          /\ \A i \in DOMAIN path.out : IsPathChar(path.out[i])
          /\ Head(path.out) # "_" /\ path.out[Len(path.out)] # "_"
          /\ NothingRemains(path.s) => path.out = Unknown
    /\ path.pc = "resanitized" => path.again = path.out

\* " A_" and "_/_" have been sanitized, to "a" and to the placeholder
C23_Witness ==
    /\ path.pc = "resanitized"
    /\ \/ path.s = <<" ", "A", "_">> /\ path.out = <<"a">>
       \/ path.s = <<"_", "/", "_">> /\ path.out = Unknown
    /\ path.again = path.out

\* C28: every resolved path is <cache dir>/verkcli/index/<host>/<org>/<profile>/
\* cameras.sqlite: it lies below <cache dir>/verkcli/index, with three
\* directories between that directory and the file, whatever the base URL,
\* the org id and the profile name are.
C28_PathStaysInIndexDir ==
    \A k \in DOMAIN path.out :
        /\ Len(path.out[k]) = Len(CacheDir) + 6
        /\ SubSeq(path.out[k], 1, Len(CacheDir) + 2)
              = CacheDir \o << <<"v","e","r","k","c","l","i">>, <<"i","n","d","e","x">> >>
        /\ path.out[k][Len(path.out[k])]
              = <<"c","a","m","e","r","a","s",".","s","q","l","i","t","e">>

\* how often x is an element of the sequence
Count(seq, x) == Cardinality({i \in DOMAIN seq : seq[i] = x})

RECURSIVE PageRecords(_)
\* the records of the pages, in the order of their delivery
PageRecords(pages) ==
    IF pages = <<>> THEN <<>>
    ELSE PageRecords(SubSeq(pages, 1, Len(pages) - 1)) \o pages[Len(pages)].resp.body.cameras

BlankToken(page) == TrimSpace(page.resp.body.next_page_token.s) = <<>>

\* the requests were made one after another, each with the token of the page
\* before it, and no request followed a page with a blank token
FetchChained ==
    /\ \A k \in DOMAIN fetch.pages :
          fetch.pages[k].req.page_token =
              IF k = 1 THEN <<>> ELSE fetch.pages[k - 1].resp.body.next_page_token.s
    /\ \A k \in DOMAIN fetch.pages : fetch.pages[k].req.page_size \in 1..200
    /\ \A k \in 1..(Len(fetch.pages) - 1) :
          fetch.pages[k].resp.fail = "none" /\ ~BlankToken(fetch.pages[k])
    /\ (fetch.pc = "loop" /\ fetch.pages # <<>>) => ~BlankToken(fetch.pages[Len(fetch.pages)])

\* the result holds the records of the fetched pages, each as often as they
\* deliver it, in non-decreasing order of id
FetchResult ==
    fetch.pc = "done" =>
        /\ BlankToken(fetch.pages[Len(fetch.pages)])
        /\ Len(fetch.result) = Len(PageRecords(fetch.pages))
        /\ \A c \in Range(PageRecords(fetch.pages)) \cup Range(fetch.result) :
              Count(fetch.result, c) = Count(PageRecords(fetch.pages), c)
        /\ SortedById(fetch.result)

\* C24: fetchAllCameras requests the pages one after another, each request
\* with the token of the page before it, and stops at the first page with a
\* blank token; it ends when the remote comes to a page with a blank token;
\* its result holds exactly the records of the fetched pages, in
\* non-decreasing order of id, in whatever order the pages delivered them.
C24_FetchAllPagesSorted ==
    /\ [](FetchChained /\ FetchResult)
    /\ <>(fetch.pc \in {"done", "failed"})

\* three pages were fetched, cam-2 on the first and cam-1 on the last, and
\* the result begins with the record without id and ends with cam-2
C24_Witness ==
    /\ fetch.pc = "done" /\ Len(fetch.pages) = 3
    /\ fetch.pages[1].resp.body.cameras = <<RecCam2>>
    /\ fetch.pages[2].resp.body.cameras = <<RecCam1b, RecBlank>>
    /\ fetch.pages[3].resp.body.cameras = <<RecCam1>>
    /\ fetch.pages[3].req.page_token = Tok2
    /\ fetch.result = <<RecBlank, RecCam1, RecCam1b, RecCam2>>

RECURSIVE RunAll(_, _, _)
\* the tables after the statements from i on, whatever they return
RunAll(t, stmts, i) ==
    IF i > Len(stmts) THEN t ELSE RunAll(Exec(t, stmts[i]).t, stmts, i + 1)

\* the search results that the tables t give for q and limit
AnswersOf(t, q, limit) ==
    {[err |-> o.err, results |-> o.results] :
        o \in searchCamerasIndex([fileExists |-> TRUE, db |-> t], q, limit)}

\* C25: a search that runs while the transaction of a rebuild or of a label
\* patch is open returns what the tables committed before that transaction
\* give, or what the tables after its commit give: never what the emptied or
\* half-filled tables give.
C25_SearchSeesCommitted ==
    [][ (Running /\ res = NoCall /\ res' # NoCall /\ res'.op = "search") =>
            [err |-> res'.err, results |-> res'.results]
                \in AnswersOf(last.before, res'.q, res'.limit)
                    \cup AnswersOf(RunAll(last.tx, last.stmts, last.i), res'.q, res'.limit) ]_vars

\* a search for "cathedral" returned cam-2 while a rebuild from cam-1 alone
\* had emptied the tables and inserted cam-1 in its transaction
C25_Witness ==
    /\ Running /\ last.op = "rebuild"
    /\ DOMAIN last.tx.cameras = {IdCam1}
    /\ res.op = "search" /\ res.q = QCathedral /\ res.err = "nil"
    /\ ResultIds(res.results) = {IdCam2}

\* the store after the step
StoreAfter == [fileExists |-> fileExists', db |-> db']

\* C26: a rebuild that returns an error changes nothing of what status and
\* search report: status returns what it returned before the call (not-found
\* on a path where no index was ever built), and every search can return
\* what it could return before.
C26_FailedRebuildKeepsReports ==
    [][ (res = NoCall /\ res' = NoCall /\ last'.op = "rebuild" /\ last'.ret = "err") =>
            /\ readCamerasIndexStatus(StoreAfter) = readCamerasIndexStatus(Store)
            /\ \A q \in Queries, limit \in Limits :
                  SearchAnswers(StoreAfter, q, limit) = SearchAnswers(Store, q, limit) ]_vars

\* C27: a rebuild from records of which two resolve to one non-blank
\* camera_id returns an error, from its loop over the records, and leaves
\* every table as it was: it neither keeps one of the two nor indexes the
\* other records.
C27_DuplicateIdFailsRebuild ==
    [][ (res = NoCall /\ res' = NoCall /\ last'.op = "rebuild") =>
            /\ last'.ret \in {"nil", "err"}
            /\ last'.ret = "nil" => IdsDistinct(last'.cams)
            /\ (last'.ret = "err" /\ ~last'.unique) => (db' = db /\ last'.at = "records") ]_vars

\* a rebuild with a record twice has failed on an index that holds both
\* cameras of an earlier rebuild
C27_Witness ==
    /\ last.op = "rebuild" /\ last.ret = "err" /\ ~last.unique /\ last.at = "records"
    /\ CameraIds(db) = {IdCam1, IdCam2}
    /\ Len(db.fts) = 2

\* C29: a search and a status change no row of cameras, labels, cameras_fts
\* and meta, whatever they return (results, the error of an empty query,
\* not-found) and however often their schema step has run before.
C29_ReadersChangeNoRow ==
    [][ (res = NoCall /\ res' # NoCall) => (db' = db /\ last' = last) ]_vars

\* a search has returned a camera of an index that holds rows in all four tables
C29_Witness ==
    /\ res.op = "search" /\ res.err = "nil" /\ res.results # <<>>
    /\ CameraIds(db) # {} /\ LabelIds(db) # {} /\ db.fts # <<>> /\ DOMAIN db.meta # {}
    /\ last.op = "patch"

\* C30: after cameras label set or cameras label rm has succeeded for camera
\* X, the index, when there is one and X is indexed, holds for X the label of
\* the config profile (none after rm), in its labels table and in its shadow
\* row.
C30_LabelCommandsPatchIndex ==
    [][ (last'.op \in {"labelset", "labelrm"} /\ last'.ret = "nil"
         /\ fileExists' /\ last'.id \in CameraIds(db')) =>
            /\ LabelOf(db', last'.id) = MapGet(cfgLabels', last'.id)
            /\ \A i \in FtsRowsOf(db', last'.id) :
                  db'.fts[i].label = MapGet(cfgLabels', last'.id) ]_vars

=============================================================================
